---- MODULE Spec2Model ----
(***************************************************************************)
(* A model of the glf_scheduler library (glf_scheduler.cpp): the schedule  *)
(* table, the Timer0 COMPB interrupt that maintains it once per            *)
(* millisecond, and the foreground calls of the user event loop.           *)
(*                                                                         *)
(* The foreground is one thread of control: fg.pc is its position, named   *)
(* after the source line it is about to execute ("idle" between calls,     *)
(* "ret" when a call has just returned fg.ret).  The interrupt handler     *)
(* runs to completion between two foreground statements (the foreground    *)
(* cannot preempt it), so one tick is one action, and it may fire between  *)
(* any two foreground statements that touch the volatile table: the        *)
(* library never disables interrupts.                                      *)
(*                                                                         *)
(* Granularity: a tick is the Timer0 overflow (millis() advances) together *)
(* with the COMPB handler that follows it 16 us later; sched_list_init is  *)
(* two steps (the handler is off while it clears the table); the body of   *)
(* sched_check0 called from sched_check is one step; sched_event,          *)
(* sched_pin_test0 and sched_pin_event_count are one step per statement.   *)
(* Edge counters stay below 256 here, so a 16 bit read is one step.        *)
(* pre, ticks_in_call, edge_since and calls are history variables: the     *)
(* code has no such state and no action's effect on the table reads them.  *)
(***************************************************************************)
EXTENDS Integers, FiniteSets, Sequences, TLC

\* ---------------------------------------------------------------- constants
MAX_SCHED == 10
MAX_DIGITAL_PIN == 13
MAX_ANALOG_PIN == 5
DEBOUNCE_THRESH_UP == 15
DEBOUNCE_THRESH_DOWN == 5
DEBOUNCE_THRESH_MAX == 20
DEBOUNCE_THRESH_BOTTOM == 0
LOW == 0
HIGH == 1

\* widths of the C types of the AVR build (char is signed, int is 16 bit).
\* unsigned long is 32 bit; TLC's integers end at 2^31 - 1, so the model's
\* unsigned long wraps at 2^30: the word is narrower, the arithmetic the same
UCHAR_MOD == 256
UINT_MOD == 65536
ULONG_MOD == 1073741824

\* lines 519-524: the interrupt happens once per ms and a library call is much
\* faster than that, so at most one tick fires inside one foreground call
MaxTicksPerCall == 1

\* ------------------------------------------------------------------- bounds
\* millis() values explored: ticks stop once millis = MaxTime
MaxTime == 2
\* library calls the event loop makes in one run
MaxCalls == 4
\* ticks explored by the debounce specification: enough for the accumulator
\* to travel from one end to the other threshold
DebounceTime == 17
\* ticks explored by the table-capacity specification
TableMaxTime == 1
\* ticks explored by the timer specification, the longest period it arms a
\* timer with, and the sched_list_init and sched_event calls it makes
TimerMaxTime == 4
MaxPeriod == 2
TimerArms == 2
\* ticks and registering calls while unknown ids are queried
UnknownMaxTime == 1
UnknownArms == 3
\* ticks the scripted input stays HIGH, and then LOW
RunLen == 20
\* ticks while a pin is watched with a period of 0 ms
ZeroMaxTime == 3
\* ticks and calls while a pin is watched with periods 0..MaxPeriod
LiveMaxTime == 2
LiveCalls == 2
\* ticks and calls while a watched pin is cancelled and armed again
CancelMaxTime == 3
CancelCalls == 3
\* ticks while the input of a pin watched with period 0 changes on every tick
FlagMaxTime == 256
\* ticks and sched_list_init calls while analog channels are scanned
AnalogMaxTime == 8
AnalogInits == 2
\* ticks and calls while the scheduler is started over in mid-run
InitMaxTime == 3
InitCalls == 3
\* the scan count of the application that samples analog channels
ScanTwo == 2
\* ticks and calls while the handler is followed step by step
OrderMaxTime == 4
OrderCalls == 3
\* ticks and calls explored by the specification of alternating edges
AlternMaxTime == 2
AlternCalls == 2
\* the wrap specification: ticks left before millis() wraps when it starts,
\* ticks explored, and calls of sched_event and sched_check
WrapLead == 2
WrapMaxTime == 4
WrapCalls == 4
\* the dial specification: the delay of setup() (1000 ms, line 78) and the
\* dialing timeout (5000 ms, line 118) scaled down, and the pulses of the
\* short and of the long dialing period
SetupDelay == 2
DialTimeout == 400
DialFew == 1
DialMany == 10

\* ------------------------------------------------------------------ helpers
UChar(x) == x % UCHAR_MOD
UInt(x) == x % UINT_MOD
ULong(x) == x % ULONG_MOD
\* a value stored into a (signed, 8 bit) char
SChar(x) == ((x + 128) % UCHAR_MOD) - 128

SetMax(S) == CHOOSE m \in S : \A x \in S : x <= m

Slots == 0..MAX_SCHED
Pins == 0..MAX_DIGITAL_PIN
\* the entries of sched_analoglist
Channels == 0..MAX_ANALOG_PIN

\* the pin the event loop watches, and a negative identifier (a manual timer)
WatchPin == 6
NegId == 0 - 1
\* the manual timer of the application
TimerId == 20
\* the ids the queries are put to: pin 0 is never watched, the negative id
\* never armed, the manual timer armed at some time
QueryIds == {0, NegId, TimerId}
\* the manual timers the table-capacity specification registers, in this order
FirstTableTimer == 21
LastTableTimer == FirstTableTimer + MAX_SCHED

\* the period the table-capacity specification arms its timers with
TablePeriod == 5

\* marks a local variable that the code reads before assigning it
Undef == 0 - 1

VARIABLES
    schedlist,          \* static sched schedlist[MAX_SCHED+1]
    sched_count,        \* static char sched_count
    sched_initialized,  \* static volatile char sched_initialized
    millis,             \* the Timer0 millisecond count returned by millis()
    pin,                \* instantaneous level digitalRead(p) returns
    fg,                 \* the foreground: position, arguments, locals, result
    pre,                \* the table as it was when the current call began
    ticks_in_call,      \* ticks that fired since the current call began
    edge_since,         \* slots with an edge confirmed since their last read
    calls,              \* library calls the event loop has made so far
    sched_num_analogs,     \* static unsigned char sched_num_analogs
    sched_current_analog,  \* static unsigned char sched_current_analog
    sched_analoglist,      \* static unsigned int sched_analoglist[MAX_ANALOG_PIN+1]
    adc,                \* the converter: channel selected, data register
    isr,                \* position of the interrupt handler, "idle" when off
    hist,               \* history of poll results and of buffer writes
    client              \* the sketch: position, static char state, output

\* what only the interrupt handler and sched_list_init write
analog_vars ==
    <<sched_num_analogs, sched_current_analog, sched_analoglist, adc, isr>>

vars == <<schedlist, sched_count, sched_initialized, millis, pin, fg, pre,
          ticks_in_call, edge_since, calls, analog_vars, client, hist>>

\* one entry of the table (typedef struct ... sched)
ZeroSlot ==
    [id |-> 0, laststate |-> 0, debounce_ct |-> 0, debounce_state |-> LOW,
     debounce_change |-> 0, event_ct_up |-> 0, event_ct_down |-> 0,
     active |-> 0, recurring |-> 0, schedtime |-> 0, schedms |-> 0]

IdleFg ==
    [pc |-> "idle", op |-> "none", ident |-> 0, recur |-> 0, ms |-> 0,
     level |-> 0, reset |-> 0, delta |-> 0, timems |-> 0, pos |-> 0 - 1,
     i |-> 0, holdup |-> Undef, holddown |-> Undef, val |-> 0,
     changes |-> 0, cmp |-> 0, got_edge |-> FALSE, ret |-> 0, num |-> 0,
     debounce |-> 1]

NoPre == [count |-> 0 - 1]

\* the voltage on analog input c, as the 10 bit value its conversion gives
AnalogInput(c) == 100 + c

\* the converter at power-on: channel 0 selected, data register clear
AdcReset == [mux |-> 0, val |-> 0]

\* nothing has happened yet: no manual timer has reported an expiry since it
\* was armed (last_true, prev_true: the times of the last two true results
\* of sched_check), no tick has run since sched_list_init with scanning on
\* (since_init), no buffer entry has been written (age: ticks since the
\* entry was last written), no id has been passed to sched_event or
\* sched_cancel since the last sched_list_init (armed), the scripted event
\* loop has put no query since the last tick (polled) and has seen no true
\* result of sched_pin_gohigh (rose) or sched_pin_golow (fell), and no
\* sched_cancel has returned to an event loop that keeps track of it without
\* a later sched_event or sched_cancel of the same id (cancelled)
NoHist ==
    [last_true |-> 0 - 1, prev_true |-> 0 - 1, since_init |-> 0,
     age |-> [c \in Channels |-> 0], armed |-> {},
     polled |-> {}, rose |-> 0, fell |-> 0, cancelled |-> {}]

\* ages of buffer entries are counted up to this
AgeCap == MAX_ANALOG_PIN + 2

\* what the interrupt handler can see: the slots counted in the table
View(list, count) == [count |-> count, slots |-> [k \in 0..(count - 1) |-> list[k]]]

\* the sketch before setup() runs: about to call sched_list_init (line 61),
\* state = 0 (line 103), nothing written to the serial port
ClientInit == [pc |-> "L61", state |-> 0, numpulses |-> 0, out |-> <<>>]

\* the statics as the C runtime zero-initialises them, before sched_list_init
Init ==
    /\ schedlist = [k \in Slots |-> ZeroSlot]
    /\ sched_count = 0
    /\ sched_initialized = 0
    /\ millis = 0
    /\ pin = [p \in Pins |-> LOW]
    /\ fg = IdleFg
    /\ pre = NoPre
    /\ ticks_in_call = 0
    /\ edge_since = {}
    /\ calls = 0
    /\ sched_num_analogs = 0
    /\ sched_current_analog = 0
    /\ sched_analoglist = [c \in Channels |-> 0]
    /\ adc = AdcReset
    /\ isr = "idle"
    /\ hist = NoHist
    /\ client = ClientInit

IsPin(id) == id >= 0 /\ id <= MAX_DIGITAL_PIN

\* lines 51-53: the other positive values are manually checked timers
IsTimer(id) == id > MAX_DIGITAL_PIN

\* digitalRead(id) of a monitored pin
DigitalRead(id) == IF IsPin(id) THEN pin[id] ELSE LOW

\* ------------------------------------------------------------ sched_check0
\* lines 341-399: one evaluation of the low-pass filter and Schmitt trigger
\* on the instantaneous level v; debounce = 0 is the zero-period shortcut
DebounceEval(s, v, debounce) ==
    IF v # 0
    THEN LET ct == IF debounce = 0 THEN DEBOUNCE_THRESH_MAX
                   ELSE SChar(s.debounce_ct + 1)
         IN  IF ct > DEBOUNCE_THRESH_UP
             THEN [s EXCEPT !.laststate = v,
                            !.debounce_ct = DEBOUNCE_THRESH_MAX,
                            !.debounce_change =
                                IF s.debounce_state = 0 THEN UChar(@ + 1) ELSE @,
                            !.event_ct_up =
                                IF s.debounce_state = 0 THEN UInt(@ + 1) ELSE @,
                            !.debounce_state = HIGH]
             ELSE [s EXCEPT !.laststate = v, !.debounce_ct = ct]
    ELSE LET ct == IF debounce = 0 THEN DEBOUNCE_THRESH_BOTTOM
                   ELSE SChar(s.debounce_ct - 1)
         IN  IF ct < DEBOUNCE_THRESH_DOWN
             THEN [s EXCEPT !.laststate = v,
                            !.debounce_ct = DEBOUNCE_THRESH_BOTTOM,
                            !.debounce_change =
                                IF s.debounce_state # 0 THEN UChar(@ + 1) ELSE @,
                            !.event_ct_down =
                                IF s.debounce_state # 0 THEN UInt(@ + 1) ELSE @,
                            !.debounce_state = LOW]
             ELSE [s EXCEPT !.laststate = v, !.debounce_ct = ct]

\* a variant of lines 320-322 that goes by the due time alone
DueInactive(s, timems) == s.schedtime <= timems

\* a variant of lines 320-322 that takes every active slot for due
DueAlways(s, timems) == s.active # 0

\* lines 320-322: the slot is active and its time is up
Due(s, timems) == s.active # 0 /\ s.schedtime <= timems

\* a variant of the lookup that falls back on slot 0 when the id is not found
FindPosDefault(list, count, ident) ==
    LET found == {k \in 0..(count - 1) : list[k].id = UChar(ident)}
    IN  IF found = {} THEN (IF count > 0 THEN 0 ELSE 0 - 1) ELSE SetMax(found)

\* a variant of lines 325-339 that turns every expired slot off
ExpireOnce(s) == [s EXCEPT !.active = 0]

\* lines 325-339: a recurring slot is bumped, a one-shot slot is turned off
Expire(s) ==
    IF s.recurring # 0
    THEN [s EXCEPT !.schedtime =
              ULong(ULong(s.schedtime + s.schedms)
                    + (IF s.schedms = 0 THEN 1 ELSE 0))]
    ELSE [s EXCEPT !.active = 0]

\* lines 320-403 on one slot (pos in range): the slot afterwards
sched_check0(s, timems, v) ==
    IF Due(s, timems)
    THEN LET debounce == IF s.recurring # 0 /\ s.schedms = 0 THEN 0 ELSE 1
         IN  IF IsPin(s.id)
             THEN DebounceEval(Expire(s), v, debounce)
             ELSE Expire(s)
    ELSE s

\* the value sched_check0 returns
sched_check0_ret(s, timems) == IF Due(s, timems) THEN 1 ELSE 0

\* an edge was confirmed on the slot by going from s to t
EdgeConfirmed(s, t) ==
    \/ t.event_ct_up # s.event_ct_up
    \/ t.event_ct_down # s.event_ct_down

\* ---------------------------------------------------- sched_background_int
\* a variant of lines 792-798 that checks every counted slot, timers too
sched_background_all(list, count, timems) ==
    [k \in Slots |->
        IF k < count
        THEN sched_check0(list[k], timems, DigitalRead(list[k].id))
        ELSE list[k]]

\* lines 792-798: every counted slot whose id is a pin gets sched_check0
sched_background_int(list, count, timems) ==
    [k \in Slots |->
        IF k < count /\ IsPin(list[k].id)
        THEN sched_check0(list[k], timems, DigitalRead(list[k].id))
        ELSE list[k]]

\* a variant of lines 731-736 that runs the ring over the whole buffer
NextAnalogWhole(current, num) ==
    IF current + 1 >= MAX_ANALOG_PIN + 1 THEN 0 ELSE current + 1

\* lines 731-736: the ring position advances and wraps at the scan count
NextAnalog(current, num) ==
    IF UChar(current + 1) >= num THEN 0 ELSE UChar(current + 1)

\* a variant of the analog scan that leaves the harvest for later
AnalogScanLate(a) == a

\* lines 704-789: the finished conversion is stored at the ring position,
\* the position advances, and the conversion of the channel it then names is
\* started (ready by the next tick); a = [num, current, list, adc]
AnalogScan(a) ==
    IF a.num # 0
    THEN LET next == NextAnalog(a.current, a.num)
         IN  [a EXCEPT !.list[a.current] = a.adc.val,
                       !.current = next,
                       !.adc = [mux |-> next, val |-> AnalogInput(next)]]
    ELSE a

\* a variant of line 846 that runs the handler whatever sched_initialized is
HandlerAlways == TRUE

\* line 846: the handler does its work only when sched_initialized is set
HandlerEnabled == sched_initialized # 0

\* the history after a tick: the queries of the scripted event loop are due
\* again; when channels are scanned, the entry written has age 0 and the
\* others are a tick older (counted up to AgeCap)
TickHist(h) ==
    IF HandlerEnabled /\ sched_num_analogs # 0
    THEN [h EXCEPT !.polled = {},
                   !.since_init = IF @ < AgeCap THEN @ + 1 ELSE @,
                   !.age = [c \in Channels |->
                               IF c = sched_current_analog THEN 0
                               ELSE IF h.age[c] < AgeCap THEN h.age[c] + 1
                               ELSE h.age[c]]]
    ELSE [h EXCEPT !.polled = {}]

\* ISR(TIMER0_COMPB_vect), fired right after Timer0 overflow advanced millis():
\* a no-op unless sched_initialized
Tick(limit) ==
    /\ millis < limit
    /\ isr = "idle"
    /\ fg.pc # "ret"
    /\ fg.pc = "idle" \/ ticks_in_call < MaxTicksPerCall
    /\ millis' = ULong(millis + 1)
    /\ LET after == IF HandlerEnabled
                    THEN sched_background_int(schedlist, sched_count, millis')
                    ELSE schedlist
       IN  /\ schedlist' = after
           /\ edge_since' = edge_since \cup
                  {k \in Slots : EdgeConfirmed(schedlist[k], after[k])}
    /\ ticks_in_call' = IF fg.pc = "idle" THEN 0 ELSE ticks_in_call + 1
    /\ hist' = TickHist(hist)
    /\ LET a == [num |-> sched_num_analogs, current |-> sched_current_analog,
                 list |-> sched_analoglist, adc |-> adc]
           b == IF HandlerEnabled THEN AnalogScan(a) ELSE a
       IN  /\ sched_current_analog' = b.current
           /\ sched_analoglist' = b.list
           /\ adc' = b.adc
    /\ UNCHANGED <<sched_count, sched_initialized, pin, fg, pre, calls,
                   sched_num_analogs, isr, client>>

\* the handler in two steps, for what can be seen between them. First step,
\* lines 675-789: millis() has advanced, the analog scan is done
TickHarvest(limit) ==
    /\ millis < limit
    /\ isr = "idle"
    /\ fg.pc # "ret"
    /\ fg.pc = "idle" \/ ticks_in_call < MaxTicksPerCall
    /\ millis' = ULong(millis + 1)
    /\ ticks_in_call' = IF fg.pc = "idle" THEN 0 ELSE ticks_in_call + 1
    /\ hist' = TickHist(hist)
    /\ LET a == [num |-> sched_num_analogs, current |-> sched_current_analog,
                 list |-> sched_analoglist, adc |-> adc]
           b == IF HandlerEnabled THEN AnalogScan(a) ELSE a
       IN  /\ sched_current_analog' = b.current
           /\ sched_analoglist' = b.list
           /\ adc' = b.adc
    /\ isr' = IF HandlerEnabled THEN "L792" ELSE "idle"
    /\ UNCHANGED <<schedlist, sched_count, sched_initialized, pin, fg, pre,
                   calls, edge_since, sched_num_analogs, client>>

\* second step, lines 792-798: the pin loop, and the handler returns
TickPins ==
    /\ isr = "L792"
    /\ LET after == sched_background_int(schedlist, sched_count, millis)
       IN  /\ schedlist' = after
           /\ edge_since' = edge_since \cup
                  {k \in Slots : EdgeConfirmed(schedlist[k], after[k])}
    /\ isr' = "idle"
    /\ UNCHANGED <<sched_count, sched_initialized, millis, pin, fg, pre,
                   ticks_in_call, calls, sched_num_analogs,
                   sched_current_analog, sched_analoglist, adc, hist, client>>

\* the environment changes the level of a watched pin
PinChange ==
    /\ fg.pc # "ret"
    /\ pin' = [pin EXCEPT ![WatchPin] = 1 - @]
    /\ UNCHANGED <<schedlist, sched_count, sched_initialized, millis, fg, pre,
                   ticks_in_call, edge_since, calls, analog_vars, client, hist>>

\* ------------------------------------------------------------ foreground
\* lines 237-243 (and 477-483, 506-512, 583-589, ...): the last counted slot
\* whose id equals ident, compared as int: ident is a signed char, id an
\* unsigned char, so a negative ident equals no stored id
FindPosReuse(list, count, ident) ==
    LET M == {k \in 0..(count - 1) : ident = list[k].id \/ list[k].active = 0}
    IN  IF M = {} THEN 0 - 1 ELSE SetMax(M)

FindPos(list, count, ident) ==
    LET M == {k \in 0..(count - 1) : ident = list[k].id}
    IN  IF M = {} THEN 0 - 1 ELSE SetMax(M)

\* line 248: there is room for another id
CanAllocate(count) == count < MAX_SCHED

\* line 261: registering an id zeroes its rising-edge counter
KeepCounterUp(s) == s

ClearCounterUp(s) == [s EXCEPT !.event_ct_up = 0]

\* line 262: and its falling-edge counter
ClearCounterDown(s) == [s EXCEPT !.event_ct_down = 0]

\* lines 278-279 and 284-285 index the slot with the loop variable i, which
\* the lookup loop left at the old sched_count, not with pos
SnapshotIndex(pos, i) == i

\* a foreground call begins: the table is remembered for the properties
Begin(f) ==
    /\ fg.pc = "idle"
    /\ sched_initialized # 0
    /\ fg' = f
    /\ pre' = [list |-> schedlist, count |-> sched_count]
    /\ ticks_in_call' = 0

\* the call has returned fg.ret to the event loop, which remembers h
ReturnWith(h) ==
    /\ fg.pc = "ret"
    /\ fg' = IdleFg
    /\ pre' = NoPre
    /\ ticks_in_call' = 0
    /\ hist' = h
    /\ UNCHANGED <<schedlist, sched_count, sched_initialized, millis, pin,
                   edge_since, analog_vars, client>>

Return == ReturnWith(hist)

\* --------------------------------------------------------- sched_list_init
\* line 123: the handler is switched off before the table is cleared
sched_list_init_begin(num_analogs_toscan) ==
    /\ fg.pc = "idle"
    /\ sched_initialized' = 0
    /\ fg' = [IdleFg EXCEPT !.pc = "L126", !.op = "sched_list_init",
                            !.num = UChar(num_analogs_toscan)]
    /\ pre' = [list |-> schedlist, count |-> sched_count]
    /\ ticks_in_call' = 0
    /\ hist' = NoHist
    /\ UNCHANGED <<schedlist, sched_count, millis, pin, edge_since,
                   analog_vars, client>>

\* pulsedial_key.ino line 61: the application scans no analog channel
sched_list_init_call == sched_list_init_begin(0)

\* a variant of lines 140-143 that takes the scan count as it comes
ClampNone(n) == n

\* lines 140-143: the scan count is capped at the size of the buffer
ClampAnalogs(n) == IF n > MAX_ANALOG_PIN + 1 THEN MAX_ANALOG_PIN + 1 ELSE n

\* lines 126-206: slots 0..MAX_SCHED-1 are cleared (debounce_ct is not),
\* the count is zeroed and the handler is switched on again
sched_list_init_step ==
    /\ fg.pc = "L126"
    /\ schedlist' = [k \in Slots |->
           IF k < MAX_SCHED
           THEN [ZeroSlot EXCEPT !.debounce_ct = schedlist[k].debounce_ct]
           ELSE schedlist[k]]
    /\ sched_num_analogs' = ClampAnalogs(fg.num)
    /\ sched_analoglist' = [c \in Channels |-> 0]
    /\ sched_current_analog' = 0
    /\ sched_count' = 0
    /\ sched_initialized' = 1
    /\ edge_since' = {}
    /\ fg' = [fg EXCEPT !.pc = "ret"]
    /\ UNCHANGED <<millis, pin, pre, ticks_in_call, adc, isr, hist, client>>

\* lines 126-206 statement by statement, for the ticks that fall between
\* them: the slots are cleared (126-138), the scan count is set (140-145),
\* the buffer is zeroed (147-150), the ring position (152) and the slot count
\* (153) are reset, and the handler is switched on again (206)
InitPcs == {"L126", "L145", "L147", "L152", "L153", "L206"}

sched_list_init_line ==
    /\ fg.op = "sched_list_init" /\ fg.pc \in InitPcs
    /\ CASE fg.pc = "L126" ->
                /\ schedlist' = [k \in Slots |->
                       IF k < MAX_SCHED
                       THEN [ZeroSlot EXCEPT
                                !.debounce_ct = schedlist[k].debounce_ct]
                       ELSE schedlist[k]]
                /\ fg' = [fg EXCEPT !.pc = "L145"]
                /\ UNCHANGED <<sched_num_analogs, sched_analoglist,
                               sched_current_analog, sched_count,
                               sched_initialized, edge_since>>
         [] fg.pc = "L145" ->
                /\ sched_num_analogs' = ClampAnalogs(fg.num)
                /\ fg' = [fg EXCEPT !.pc = "L147"]
                /\ UNCHANGED <<schedlist, sched_analoglist,
                               sched_current_analog, sched_count,
                               sched_initialized, edge_since>>
         [] fg.pc = "L147" ->
                /\ sched_analoglist' = [c \in Channels |-> 0]
                /\ fg' = [fg EXCEPT !.pc = "L152"]
                /\ UNCHANGED <<schedlist, sched_num_analogs,
                               sched_current_analog, sched_count,
                               sched_initialized, edge_since>>
         [] fg.pc = "L152" ->
                /\ sched_current_analog' = 0
                /\ fg' = [fg EXCEPT !.pc = "L153"]
                /\ UNCHANGED <<schedlist, sched_num_analogs, sched_analoglist,
                               sched_count, sched_initialized, edge_since>>
         [] fg.pc = "L153" ->
                /\ sched_count' = 0
                /\ edge_since' = {}
                /\ fg' = [fg EXCEPT !.pc = "L206"]
                /\ UNCHANGED <<schedlist, sched_num_analogs, sched_analoglist,
                               sched_current_analog, sched_initialized>>
         [] fg.pc = "L206" ->
                /\ sched_initialized' = 1
                /\ fg' = [fg EXCEPT !.pc = "ret"]
                /\ UNCHANGED <<schedlist, sched_num_analogs, sched_analoglist,
                               sched_current_analog, sched_count, edge_since>>
    /\ UNCHANGED <<millis, pin, pre, ticks_in_call, adc, isr, hist, client>>

\* ------------------------------------------------------------- sched_event
\* lines 234-255: millis() is read, the id is looked up; only reads, so the
\* call starts at its first write
sched_event_entry(op, ident, recur, ms, list, count, now) ==
    LET p == FindPos(list, count, ident)
    IN  [IdleFg EXCEPT !.op = op, !.ident = ident, !.recur = recur, !.ms = ms,
                       !.timems = now, !.pos = p, !.i = count,
                       !.pc = IF p >= 0 THEN "L257"
                              ELSE IF CanAllocate(count) THEN "L250"
                              ELSE "ret",
                       !.ret = 0]

\* where the code goes after the writes of 257-268
AfterActive(st) ==
    IF IsPin(st.list[st.fg.pos].id) THEN [st EXCEPT !.fg.pc = "L272"]
    ELSE [st EXCEPT !.fg.pc = "ret", !.fg.ret = 1]

\* one statement of sched_event on st = [list, count, fg]; v is what
\* digitalRead returns at line 272
sched_event_stmt(st, v) ==
    LET f == st.fg
        p == f.pos
        x == SnapshotIndex(f.pos, f.i)
    IN  CASE f.pc = "L250" ->
                 [st EXCEPT !.count = SChar(@ + 1), !.fg.pos = st.count,
                            !.fg.pc = "L257"]
          [] f.pc = "L257" ->
                 [st EXCEPT !.list[p].id = UChar(f.ident), !.fg.pc = "L258"]
          [] f.pc = "L258" ->
                 [st EXCEPT !.list[p].schedtime = ULong(f.ms + f.timems),
                            !.fg.pc = "L259"]
          [] f.pc = "L259" ->
                 [st EXCEPT !.list[p].schedms = f.ms, !.fg.pc = "L260"]
          [] f.pc = "L260" ->
                 [st EXCEPT !.list[p].recurring = UChar(f.recur),
                            !.fg.pc = "L261"]
          [] f.pc = "L261" ->
                 [st EXCEPT !.list[p] = ClearCounterUp(@), !.fg.pc = "L262"]
          [] f.pc = "L262" ->
                 [st EXCEPT !.list[p] = ClearCounterDown(@), !.fg.pc = "L263"]
          [] f.pc = "L263" ->
                 IF f.recur = 0 /\ f.ms = 0
                 THEN [st EXCEPT !.list[p].active = 1, !.fg.pc = "L267"]
                 ELSE AfterActive([st EXCEPT !.list[p].active = 1])
          [] f.pc = "L267" ->
                 AfterActive([st EXCEPT !.list[p].active = 0])
          [] f.pc = "L272" ->
                 [st EXCEPT !.list[p].laststate = v, !.fg.pc = "L274"]
          [] f.pc = "L274" ->
                 LET hi == IF st.list[p].laststate # 0 THEN 1 ELSE 0
                 IN  [st EXCEPT !.list[p].debounce_ct =
                                    IF hi = 1 THEN DEBOUNCE_THRESH_MAX
                                    ELSE DEBOUNCE_THRESH_BOTTOM,
                                !.fg.cmp = hi, !.fg.pc = "L278"]
          [] f.pc = "L278" ->
                 [st EXCEPT !.list[x].debounce_change = 0, !.fg.pc = "L279"]
          [] f.pc = "L279" ->
                 [st EXCEPT !.list[x].debounce_state =
                                IF f.cmp = 1 THEN HIGH ELSE LOW,
                            !.fg.pc = "ret", !.fg.ret = 1]

EventPcs == {"L250", "L257", "L258", "L259", "L260", "L261", "L262", "L263", "L267",
             "L272", "L274", "L278", "L279"}

\* sched_event run to its return with no interrupt in between
RECURSIVE sched_event_run(_, _)
sched_event_run(st, v) ==
    IF st.fg.pc \in EventPcs THEN sched_event_run(sched_event_stmt(st, v), v)
    ELSE st

\* the event loop calls sched_event(ident, recur, ms)
sched_event_call(ident, recur, ms) ==
    /\ Begin(sched_event_entry("sched_event", ident, recur, ms,
                               schedlist, sched_count, millis))
    /\ hist' = IF IsTimer(ident)
               THEN [hist EXCEPT !.last_true = 0 - 1, !.prev_true = 0 - 1,
                                 !.armed = @ \cup {ident},
                                 !.cancelled = @ \ {ident}]
               ELSE [hist EXCEPT !.armed = @ \cup {ident},
                                 !.cancelled = @ \ {ident}]
    /\ UNCHANGED <<schedlist, sched_count, sched_initialized, millis, pin,
                   edge_since, analog_vars, client>>

\* line 303: sched_cancel(ident) is sched_event(ident, 0, 0)
sched_cancel_call(ident) ==
    /\ Begin(sched_event_entry("sched_cancel", ident, 0, 0,
                               schedlist, sched_count, millis))
    /\ hist' = [hist EXCEPT !.armed = @ \cup {ident},
                             !.cancelled = @ \ {ident}]
    /\ UNCHANGED <<schedlist, sched_count, sched_initialized, millis, pin,
                   edge_since, analog_vars, client>>

\* the next statement of the running sched_event executes
sched_event_step ==
    /\ fg.pc \in EventPcs
    /\ LET st == sched_event_stmt(
                     [list |-> schedlist, count |-> sched_count, fg |-> fg],
                     IF fg.pos >= 0 THEN DigitalRead(schedlist[fg.pos].id)
                     ELSE LOW)
       IN  /\ schedlist' = st.list
           /\ sched_count' = st.count
           /\ fg' = st.fg
    /\ edge_since' = IF fg.pc = "L278"
                     THEN edge_since \ {SnapshotIndex(fg.pos, fg.i)}
                     ELSE edge_since
    /\ UNCHANGED <<sched_initialized, millis, pin, pre, ticks_in_call, calls,
                   analog_vars, client, hist>>

\* -------------------------------------------------------- sched_analogread
\* what a read past the end of sched_analoglist can give: the bytes of the
\* static that follows it, zero or not
Beyond == {0, 1}

\* lines 459-466: 0 for a channel above the scan count, else the buffer
\* entry; index MAX_ANALOG_PIN + 1 passes the test of line 459 when all
\* channels are scanned and lies outside the buffer
AnalogReadValues(channel) ==
    IF channel > sched_num_analogs THEN {0}
    ELSE IF channel \in Channels THEN {sched_analoglist[channel]}
    ELSE Beyond

\* the event loop calls sched_analogread(channel): a single read
sched_analogread_call(channel) ==
    /\ \E v \in AnalogReadValues(UChar(channel)) :
           Begin([IdleFg EXCEPT !.op = "sched_analogread",
                                !.ident = UChar(channel),
                                !.pc = "ret", !.ret = v])
    /\ UNCHANGED <<schedlist, sched_count, sched_initialized, millis, pin,
                   edge_since, analog_vars, client, hist>>

\* ------------------------------------------------------------- sched_check
\* lines 477-489: the id is looked up; an unknown id returns 0
sched_check_call(ident) ==
    /\ LET p == FindPos(schedlist, sched_count, ident)
       IN  Begin([IdleFg EXCEPT !.op = "sched_check", !.ident = ident,
                                !.pos = p,
                                !.pc = IF p >= 0 THEN "L313" ELSE "ret"])
    /\ UNCHANGED <<schedlist, sched_count, sched_initialized, millis, pin,
                   edge_since, analog_vars, client, hist>>

\* line 491: sched_check0(pos) with the millis() it reads at line 313
sched_check_step ==
    /\ fg.pc = "L313"
    /\ LET s == schedlist[fg.pos]
           t == sched_check0(s, millis, DigitalRead(s.id))
       IN  /\ schedlist' = [schedlist EXCEPT ![fg.pos] = t]
           /\ fg' = [fg EXCEPT !.timems = millis, !.pc = "ret",
                               !.ret = sched_check0_ret(s, millis)]
           /\ edge_since' = IF EdgeConfirmed(s, t)
                            THEN edge_since \cup {fg.pos} ELSE edge_since
           /\ hist' = IF IsTimer(fg.ident) /\ sched_check0_ret(s, millis) = 1
                      THEN [hist EXCEPT !.prev_true = hist.last_true,
                                        !.last_true = millis]
                      ELSE hist
    /\ UNCHANGED <<sched_count, sched_initialized, millis, pin, pre,
                   ticks_in_call, calls, analog_vars, client>>

\* ---------------------------------------------------------- sched_pin_test0
\* line 423: the "changed" flag is cleared whatever delta is
PinTestClear(s) == [s EXCEPT !.debounce_change = 0]

\* lines 425-452: what sched_pin_test0 returns once the flag is consumed
PinTestResult(s, changes, level, delta) ==
    IF delta = 0 THEN s.debounce_state
    ELSE IF changes # 0
            /\ ((level # 0 /\ s.debounce_state # 0)
                \/ (level = 0 /\ s.debounce_state = 0))
         THEN 1
         ELSE 0

\* lines 583-597, 608-622, 633-647: lookup, then sched_pin_test0(pos, level, delta)
sched_pin_test_call(op, ident, level, delta) ==
    /\ LET p == FindPos(schedlist, sched_count, ident)
       IN  Begin([IdleFg EXCEPT !.op = op, !.ident = ident, !.level = level,
                                !.delta = delta, !.pos = p,
                                !.pc = IF p >= 0 THEN "L420" ELSE "ret"])
    /\ UNCHANGED <<schedlist, sched_count, sched_initialized, millis, pin,
                   edge_since, analog_vars, client, hist>>

sched_pin_gohigh_call(ident) == sched_pin_test_call("sched_pin_gohigh", ident, 1, 1)

sched_pin_golow_call(ident) == sched_pin_test_call("sched_pin_golow", ident, 0, 1)

sched_pin_level_call(ident, level) ==
    sched_pin_test_call("sched_pin_level", ident, level, 0)

\* the next statement of the running sched_pin_test0 executes
sched_pin_test0_step ==
    /\ fg.pc \in {"L420", "L422", "L423", "L425"}
    /\ LET p == fg.pos
           s == schedlist[p]
       IN  CASE fg.pc = "L420" ->
                    /\ fg' = IF s.active # 0 THEN [fg EXCEPT !.pc = "L422"]
                             ELSE [fg EXCEPT !.pc = "ret", !.ret = 0]
                    /\ UNCHANGED <<schedlist, edge_since>>
             [] fg.pc = "L422" ->
                    /\ fg' = [fg EXCEPT !.changes = SChar(s.debounce_change),
                                        !.got_edge = p \in edge_since,
                                        !.pc = "L423"]
                    /\ edge_since' = IF fg.delta # 0 THEN edge_since \ {p}
                                     ELSE edge_since
                    /\ UNCHANGED schedlist
             [] fg.pc = "L423" ->
                    /\ schedlist' = [schedlist EXCEPT ![p] = PinTestClear(@)]
                    /\ fg' = [fg EXCEPT !.pc = "L425"]
                    /\ UNCHANGED edge_since
             [] fg.pc = "L425" ->
                    /\ fg' = [fg EXCEPT !.pc = "ret",
                                        !.ret = PinTestResult(s, fg.changes,
                                                              fg.level, fg.delta)]
                    /\ UNCHANGED <<schedlist, edge_since>>
    /\ UNCHANGED <<sched_count, sched_initialized, millis, pin, pre,
                   ticks_in_call, calls, analog_vars, client, hist>>

\* sched_check0(pos) called from sched_check, statement by statement, so that
\* a tick can fire between two of them; fg.debounce is the local of line 311
CheckPcs ==
    {"L313", "L320", "L325", "L341", "L343", "L345",
     "L348", "L359", "L361", "L363", "L365", "L366", "L369",
     "L376", "L387", "L389", "L391", "L393", "L394", "L397"}

sched_check0_line ==
    /\ fg.op = "sched_check"
    /\ fg.pc \in CheckPcs
    /\ LET p == fg.pos
           s == schedlist[p]
           Goto(l) == fg' = [fg EXCEPT !.pc = l]
           Ret1 == fg' = [fg EXCEPT !.pc = "ret", !.ret = 1]
           Write(t) == schedlist' = [schedlist EXCEPT ![p] = t]
       IN  CASE fg.pc = "L313" ->
                    /\ fg' = [fg EXCEPT !.timems = millis, !.debounce = 1,
                                        !.pc = "L320"]
                    /\ UNCHANGED <<schedlist, edge_since, hist>>
             [] fg.pc = "L320" ->
                    /\ fg' = IF Due(s, fg.timems)
                             THEN [fg EXCEPT !.pc = "L325"]
                             ELSE [fg EXCEPT !.pc = "ret", !.ret = 0]
                    /\ UNCHANGED <<schedlist, edge_since, hist>>
             [] fg.pc = "L325" ->
                    /\ Write(Expire(s))
                    /\ fg' = [fg EXCEPT !.pc = "L341",
                                 !.debounce =
                                     IF s.recurring # 0 /\ s.schedms = 0
                                     THEN 0 ELSE 1]
                    /\ hist' = IF IsTimer(fg.ident)
                               THEN [hist EXCEPT !.prev_true = hist.last_true,
                                                 !.last_true = fg.timems]
                               ELSE hist
                    /\ UNCHANGED edge_since
             [] fg.pc = "L341" ->
                    /\ IF IsPin(s.id) THEN Goto("L343") ELSE Ret1
                    /\ UNCHANGED <<schedlist, edge_since, hist>>
             [] fg.pc = "L343" ->
                    /\ Write([s EXCEPT !.laststate = DigitalRead(s.id)])
                    /\ Goto("L345")
                    /\ UNCHANGED <<edge_since, hist>>
             [] fg.pc = "L345" ->
                    /\ Goto(IF s.laststate # 0 THEN "L348" ELSE "L376")
                    /\ UNCHANGED <<schedlist, edge_since, hist>>
             [] fg.pc = "L348" ->
                    /\ Write([s EXCEPT !.debounce_ct =
                                 IF fg.debounce = 0 THEN DEBOUNCE_THRESH_MAX
                                 ELSE SChar(@ + 1)])
                    /\ Goto("L359")
                    /\ UNCHANGED <<edge_since, hist>>
             [] fg.pc = "L359" ->
                    /\ IF s.debounce_ct > DEBOUNCE_THRESH_UP
                       THEN Goto("L361") ELSE Ret1
                    /\ UNCHANGED <<schedlist, edge_since, hist>>
             [] fg.pc = "L361" ->
                    /\ Write([s EXCEPT !.debounce_ct = DEBOUNCE_THRESH_MAX])
                    /\ Goto("L363")
                    /\ UNCHANGED <<edge_since, hist>>
             [] fg.pc = "L363" ->
                    /\ Goto(IF s.debounce_state = 0 THEN "L365" ELSE "L369")
                    /\ UNCHANGED <<schedlist, edge_since, hist>>
             [] fg.pc = "L365" ->
                    /\ Write([s EXCEPT !.debounce_change = UChar(@ + 1)])
                    /\ Goto("L366")
                    /\ UNCHANGED <<edge_since, hist>>
             [] fg.pc = "L366" ->
                    /\ Write([s EXCEPT !.event_ct_up = UInt(@ + 1)])
                    /\ Goto("L369")
                    /\ edge_since' = edge_since \cup {p}
                    /\ UNCHANGED hist
             [] fg.pc = "L369" ->
                    /\ Write([s EXCEPT !.debounce_state = HIGH])
                    /\ Ret1
                    /\ UNCHANGED <<edge_since, hist>>
             [] fg.pc = "L376" ->
                    /\ Write([s EXCEPT !.debounce_ct =
                                 IF fg.debounce = 0 THEN DEBOUNCE_THRESH_BOTTOM
                                 ELSE SChar(@ - 1)])
                    /\ Goto("L387")
                    /\ UNCHANGED <<edge_since, hist>>
             [] fg.pc = "L387" ->
                    /\ IF s.debounce_ct < DEBOUNCE_THRESH_DOWN
                       THEN Goto("L389") ELSE Ret1
                    /\ UNCHANGED <<schedlist, edge_since, hist>>
             [] fg.pc = "L389" ->
                    /\ Write([s EXCEPT !.debounce_ct = DEBOUNCE_THRESH_BOTTOM])
                    /\ Goto("L391")
                    /\ UNCHANGED <<edge_since, hist>>
             [] fg.pc = "L391" ->
                    /\ Goto(IF s.debounce_state # 0 THEN "L393" ELSE "L397")
                    /\ UNCHANGED <<schedlist, edge_since, hist>>
             [] fg.pc = "L393" ->
                    /\ Write([s EXCEPT !.debounce_change = UChar(@ + 1)])
                    /\ Goto("L394")
                    /\ UNCHANGED <<edge_since, hist>>
             [] fg.pc = "L394" ->
                    /\ Write([s EXCEPT !.event_ct_down = UInt(@ + 1)])
                    /\ Goto("L397")
                    /\ edge_since' = edge_since \cup {p}
                    /\ UNCHANGED hist
             [] fg.pc = "L397" ->
                    /\ Write([s EXCEPT !.debounce_state = LOW])
                    /\ Ret1
                    /\ UNCHANGED <<edge_since, hist>>
    /\ UNCHANGED <<sched_count, sched_initialized, millis, pin, pre,
                   ticks_in_call, calls, analog_vars, client>>

\* ---------------------------------------------------- sched_pin_event_count
\* lines 506-518: lookup; lines 528, 538: the direction picks the retry loop
sched_pin_event_count_call(ident, level, reset) ==
    /\ LET p == FindPos(schedlist, sched_count, ident)
       IN  Begin([IdleFg EXCEPT !.op = "sched_pin_event_count",
                                !.ident = ident, !.level = level,
                                !.reset = reset, !.pos = p,
                                !.pc = IF p < 0 THEN "ret"
                                       ELSE IF level # 0 THEN "L533"
                                       ELSE "L543"])
    /\ UNCHANGED <<schedlist, sched_count, sched_initialized, millis, pin,
                   edge_since, analog_vars, client, hist>>

\* lines 551, 561: the counter differs from the value held; holdup (holddown)
\* is never assigned when the other direction was asked for, and comparing
\* with it can then go either way
Differs(counter, hold) ==
    IF hold = Undef THEN {0, 1} ELSE {IF counter # hold THEN 1 ELSE 0}

\* lines 554-558, 564-568: the counter after the reset
ResetValue(differs) == IF differs # 0 THEN 1 ELSE 0

\* line 549 after a stable read
AfterStable(f) ==
    IF f.reset # 0 THEN [f EXCEPT !.pc = "L551"]
    ELSE [f EXCEPT !.pc = "ret", !.ret = f.val]

\* the next statement of the running sched_pin_event_count executes
sched_pin_event_count_step ==
    /\ fg.pc \in {"L533", "L536", "L543", "L546", "L551", "L554", "L561", "L564"}
    /\ LET p == fg.pos
           s == schedlist[p]
       IN  CASE fg.pc = "L533" ->
                    /\ fg' = [fg EXCEPT !.holdup = s.event_ct_up,
                                        !.val = s.event_ct_up, !.pc = "L536"]
                    /\ UNCHANGED schedlist
             [] fg.pc = "L536" ->
                    /\ fg' = IF fg.holdup # s.event_ct_up
                             THEN [fg EXCEPT !.pc = "L533"]
                             ELSE AfterStable(fg)
                    /\ UNCHANGED schedlist
             [] fg.pc = "L543" ->
                    /\ fg' = [fg EXCEPT !.holddown = s.event_ct_down,
                                        !.val = s.event_ct_down, !.pc = "L546"]
                    /\ UNCHANGED schedlist
             [] fg.pc = "L546" ->
                    /\ fg' = IF fg.holddown # s.event_ct_down
                             THEN [fg EXCEPT !.pc = "L543"]
                             ELSE AfterStable(fg)
                    /\ UNCHANGED schedlist
             [] fg.pc = "L551" ->
                    /\ \E c \in Differs(s.event_ct_up, fg.holdup) :
                           fg' = [fg EXCEPT !.cmp = c, !.pc = "L554"]
                    /\ UNCHANGED schedlist
             [] fg.pc = "L554" ->
                    /\ schedlist' = [schedlist EXCEPT
                                         ![p].event_ct_up = ResetValue(fg.cmp)]
                    /\ fg' = [fg EXCEPT !.pc = "L561"]
             [] fg.pc = "L561" ->
                    /\ \E c \in Differs(s.event_ct_down, fg.holddown) :
                           fg' = [fg EXCEPT !.cmp = c, !.pc = "L564"]
                    /\ UNCHANGED schedlist
             [] fg.pc = "L564" ->
                    /\ schedlist' = [schedlist EXCEPT
                                         ![p].event_ct_down = ResetValue(fg.cmp)]
                    /\ fg' = [fg EXCEPT !.pc = "ret", !.ret = fg.val]
    /\ UNCHANGED <<sched_count, sched_initialized, millis, pin, pre,
                   ticks_in_call, edge_since, calls, analog_vars, client, hist>>

\* ------------------------------------------------------------ specification
\* the call returns, the timer fires, the input changes
Environment(limit) ==
    \/ Return /\ UNCHANGED calls
    \/ Tick(limit)
    \/ PinChange

\* the event loop makes one more of its MaxCalls calls
Budget == calls < MaxCalls /\ calls' = calls + 1

\* an event loop that registers, cancels and polls WatchPin
Next ==
    \/ Budget /\ sched_list_init_call
    \/ Budget /\ \E recur \in {0, 1}, ms \in {0, 1} :
                     sched_event_call(WatchPin, recur, ms)
    \/ Budget /\ sched_cancel_call(WatchPin)
    \/ Budget /\ sched_check_call(WatchPin)
    \/ sched_list_init_step /\ UNCHANGED calls
    \/ sched_event_step
    \/ sched_check_step
    \/ Environment(MaxTime)

Spec == Init /\ [][Next]_vars

\* an event loop that watches WatchPin and reads its edges and counters
NextRead ==
    \/ Budget /\ sched_initialized = 0 /\ sched_list_init_call
    \/ Budget /\ \E ms \in {0, 1} : sched_event_call(WatchPin, 1, ms)
    \/ Budget /\ sched_pin_gohigh_call(WatchPin)
    \/ Budget /\ sched_pin_golow_call(WatchPin)
    \/ Budget /\ sched_pin_level_call(WatchPin, HIGH)
    \/ Budget /\ \E level \in {0, 1}, reset \in {0, 1} :
                     sched_pin_event_count_call(WatchPin, level, reset)
    \/ sched_list_init_step /\ UNCHANGED calls
    \/ sched_event_step
    \/ sched_pin_test0_step
    \/ sched_pin_event_count_step
    \/ Environment(MaxTime)

SpecRead == Init /\ [][NextRead]_vars

\* the input holds its level until the filter of the slot watching it has
\* run to one of its ends
PinHeld ==
    \A k \in 0..(sched_count - 1) :
        schedlist[k].id = WatchPin =>
            schedlist[k].debounce_ct \in {DEBOUNCE_THRESH_BOTTOM, DEBOUNCE_THRESH_MAX}

\* an event loop that debounces WatchPin with a 1 ms period and asks for its
\* edges, for as long as the filter needs to confirm one
NextDebounce ==
    \/ Budget /\ sched_initialized = 0 /\ sched_list_init_call
    \/ Budget /\ sched_event_call(WatchPin, 1, 1)
    \/ Budget /\ sched_pin_gohigh_call(WatchPin)
    \/ Budget /\ sched_pin_golow_call(WatchPin)
    \/ sched_list_init_step /\ UNCHANGED calls
    \/ sched_event_step
    \/ sched_pin_test0_step
    \/ Return /\ UNCHANGED calls
    \/ Tick(DebounceTime)
    \/ PinHeld /\ PinChange

SpecDebounce == Init /\ [][NextDebounce]_vars

\* an event loop that registers and cancels a pin and a manual timer with a
\* negative id in any order
NextIds ==
    \/ Budget /\ sched_list_init_call
    \/ Budget /\ \E id \in {WatchPin, NegId} :
                     sched_event_call(id, 0, 1)
    \/ Budget /\ \E id \in {WatchPin, NegId} : sched_cancel_call(id)
    \/ sched_list_init_step /\ UNCHANGED calls
    \/ sched_event_step
    \/ Environment(MaxTime)

SpecIds == Init /\ [][NextIds]_vars

\* an event loop that fills the table: manual timers FirstTableTimer,
\* FirstTableTimer + 1, ... are registered in this order (the code treats
\* every id outside the pin range alike), the last free slot goes to the
\* negative id, and the first timer and the negative id are re-armed and
\* cancelled
NextTableTimer ==
    IF sched_count = MAX_SCHED - 1 THEN NegId ELSE FirstTableTimer + sched_count

NextTable ==
    \/ sched_list_init_call /\ UNCHANGED calls
    \/ /\ NextTableTimer <= LastTableTimer
       /\ sched_event_call(NextTableTimer, 0, TablePeriod)
       /\ UNCHANGED calls
    \/ /\ sched_count > 0
       /\ sched_event_call(FirstTableTimer, 1, TablePeriod)
       /\ UNCHANGED calls
    \/ /\ sched_count = MAX_SCHED
       /\ sched_event_call(NegId, 0, TablePeriod)
       /\ UNCHANGED calls
    \/ /\ sched_count > 0
       /\ sched_cancel_call(FirstTableTimer)
       /\ UNCHANGED calls
    \/ sched_list_init_step /\ UNCHANGED calls
    \/ sched_event_step
    \/ Return /\ UNCHANGED calls
    \/ Tick(TableMaxTime)

SpecTable == Init /\ [][NextTable]_vars

\* an event loop that arms the manual timer TimerId and a manual timer with
\* a negative id, one-shot or recurring, and polls them at any time
NextTimer ==
    \/ /\ sched_initialized = 0
       /\ sched_list_init_call
       /\ calls' = calls + 1
    \/ /\ calls < TimerArms
       /\ \E id \in {TimerId, NegId}, recur \in {0, 1}, ms \in 1..MaxPeriod :
              sched_event_call(id, recur, ms)
       /\ calls' = calls + 1
    \/ \E id \in {TimerId, NegId} : sched_check_call(id) /\ UNCHANGED calls
    \/ sched_list_init_step /\ UNCHANGED calls
    \/ sched_event_step
    \/ sched_check_step
    \/ Return /\ UNCHANGED calls
    \/ Tick(TimerMaxTime)

SpecTimer == Init /\ [][NextTimer]_vars

\* --------------------------------------------------------------- properties
InEvent == fg.op \in {"sched_event", "sched_cancel"}

\* the slot the id of the current call had when the call began, if any
PrePos == FindPos(pre.list, pre.count, fg.ident)

\* a slot as sched_cancel leaves it
Cancelled(s) == s.active = 0 /\ s.recurring = 0 /\ s.schedms = 0

\* C1: no lost edges under the reset race. With at most one tick inside
\* sched_pin_event_count(id, direction, reset = 1), the write that resets the
\* counter conserves the count: the value the call returns plus the value it
\* leaves in the counter (what the next read reports) is the number of edges
\* the counter held, for the rising and for the falling direction.
C1_NoLostEdge ==
    [][(fg.op = "sched_pin_event_count" /\ ticks_in_call <= 1) =>
          /\ (fg.pc = "L554" /\ fg'.pc = "L561" /\ fg.level # 0) =>
                 fg.val + schedlist'[fg.pos].event_ct_up
                     = schedlist[fg.pos].event_ct_up
          /\ (fg.pc = "L564" /\ fg'.pc = "ret" /\ fg.level = 0) =>
                 fg.val + schedlist'[fg.pos].event_ct_down
                     = schedlist[fg.pos].event_ct_down]_vars

\* C2: arm is atomic with respect to the tick. At every point inside
\* sched_event or sched_cancel where the handler may fire (no tick has yet
\* fired inside the call), the counted slots are entirely as they were before
\* the call or entirely as the call leaves them (for the level digitalRead
\* returns).
C2_ArmAtomic ==
    (InEvent /\ fg.pc \in EventPcs /\ ticks_in_call = 0) =>
        LET start == [list |-> pre.list, count |-> pre.count,
                      fg |-> sched_event_entry(fg.op, fg.ident, fg.recur, fg.ms,
                                               pre.list, pre.count, fg.timems)]
            now == View(schedlist, sched_count)
        IN  \/ now = View(pre.list, pre.count)
            \/ \E v \in {LOW, HIGH} :
                   LET done == sched_event_run(start, v)
                   IN  now = View(done.list, done.count)

\* C3: pin_level(id) is a pure query. No statement of sched_pin_level changes
\* the "changed" flag of the slot.
C3_PinLevelPure ==
    [][(fg.op = "sched_pin_level" /\ fg.pc \in {"L420", "L422", "L423", "L425"}
        /\ fg'.pc # fg.pc) =>
          schedlist'[fg.pos].debounce_change
              = schedlist[fg.pos].debounce_change]_vars

\* C4: edge-triggered, not level-triggered. pin_rose (pin_fell) returns true
\* exactly once for a confirmed edge: it returns true only if an edge was
\* confirmed since the previous pin_rose or pin_fell read the flag, whatever
\* the level is; and it does return true when such an edge was confirmed
\* before the call and the confirmed level is HIGH (LOW).
C4_EdgeTriggered ==
    (fg.pc = "ret" /\ fg.op \in {"sched_pin_gohigh", "sched_pin_golow"}
     /\ fg.pos >= 0) =>
        /\ fg.ret = 1 => fg.got_edge
        /\ (ticks_in_call = 0 /\ fg.got_edge
            /\ schedlist[fg.pos].debounce_state
                   = (IF fg.op = "sched_pin_gohigh" THEN HIGH ELSE LOW)) =>
               fg.ret = 1

\* C5: arm snapshots the pin level. When sched_event on a pin id returns (no
\* tick inside the call), the confirmed level of the slot is the level the
\* call read and the "changed" flag is clear.
C5_ArmSnapshots ==
    (fg.pc = "ret" /\ fg.op = "sched_event" /\ fg.ret = 1 /\ IsPin(fg.ident)
     /\ ticks_in_call = 0) =>
        /\ schedlist[fg.pos].debounce_state
               = (IF schedlist[fg.pos].laststate # 0 THEN HIGH ELSE LOW)
        /\ schedlist[fg.pos].debounce_change = 0

\* C6 as claimed: cancel preserves the counters. When sched_cancel of a
\* registered id returns (no tick inside the call), both edge counters are
\* what they were before the call.
C6_CancelKeepsCounters ==
    (fg.pc = "ret" /\ fg.op = "sched_cancel" /\ PrePos >= 0
     /\ ticks_in_call = 0) =>
        /\ schedlist[fg.pos].event_ct_up = pre.list[PrePos].event_ct_up
        /\ schedlist[fg.pos].event_ct_down = pre.list[PrePos].event_ct_down

\* C6 amended: cancel keeps the slot entry and resets the counters. When
\* sched_cancel returns 1, the slot it used holds the id, is inactive, and has
\* had both counters zeroed: they hold no more than the edge a tick inside
\* the call confirmed. The slot is the one the lookup found, with the slot
\* count unchanged; when the lookup found none (an unknown or a negative id)
\* it is a new slot and no slot was given up.
C6_CancelResetsCounters ==
    (fg.pc = "ret" /\ fg.op = "sched_cancel") =>
        /\ fg.ret = (IF PrePos >= 0 \/ pre.count < MAX_SCHED THEN 1 ELSE 0)
        /\ fg.ret = 1 =>
               /\ schedlist[fg.pos].id = UChar(fg.ident)
               /\ schedlist[fg.pos].active = 0
               /\ schedlist[fg.pos].event_ct_up
                      + schedlist[fg.pos].event_ct_down <= ticks_in_call
               /\ IF PrePos >= 0
                  THEN fg.pos = PrePos /\ sched_count = pre.count
                  ELSE fg.pos = pre.count /\ sched_count = pre.count + 1

\* C6 witness: a cancel returns on a slot that had counted a rising edge.
C6_Witness ==
    /\ fg.pc = "ret" /\ fg.op = "sched_cancel" /\ PrePos >= 0
    /\ pre.list[PrePos].event_ct_up > 0
    /\ schedlist[fg.pos].event_ct_up = 0

\* C7: idempotent cancel. When sched_cancel returns on an id that was already
\* cancelled, the slot is inactive and both edge counters are what the first
\* cancel left; and sched_check of a cancelled id returns false.
C7_IdempotentCancel ==
    (fg.pc = "ret" /\ PrePos >= 0 /\ Cancelled(pre.list[PrePos])) =>
        /\ fg.op = "sched_cancel" =>
               /\ schedlist[fg.pos].active = 0
               /\ schedlist[fg.pos].event_ct_up = pre.list[PrePos].event_ct_up
               /\ schedlist[fg.pos].event_ct_down
                      = pre.list[PrePos].event_ct_down
        /\ fg.op = "sched_check" => fg.ret = 0

\* C8: at most one slot per identifier. Between calls no two counted slots
\* hold the same id.
C8_UniqueIds ==
    fg.pc \in {"idle", "ret"} =>
        \A j, k \in 0..(sched_count - 1) :
            j # k => schedlist[j].id # schedlist[k].id

\* the id is stored in a counted slot of the table
InTable(list, count, ident) ==
    \E k \in 0..(count - 1) : list[k].id = UChar(ident)

\* C9: capacity exhaustion fails cleanly. With MAX_SCHED distinct ids
\* registered, sched_event of an id not in the table returns 0 and leaves the
\* slot count and the whole table as they were; sched_event of an id that is
\* in the table returns 1.
C9_FullTableRejects ==
    (fg.pc = "ret" /\ fg.op = "sched_event" /\ pre.count = MAX_SCHED
     /\ Cardinality({pre.list[k].id : k \in 0..(MAX_SCHED - 1)}) = MAX_SCHED) =>
        IF InTable(pre.list, pre.count, fg.ident)
        THEN /\ fg.ret = 1
             /\ sched_count = pre.count
        ELSE /\ fg.ret = 0
             /\ sched_count = pre.count
             /\ ticks_in_call = 0 => schedlist = pre.list

\* a full table in which an id has been cancelled, and a new id is armed
RetryAfterCancel ==
    /\ fg.pc = "ret" /\ fg.op = "sched_event"
    /\ pre.count = MAX_SCHED /\ ~InTable(pre.list, pre.count, fg.ident)
    /\ \E k \in 0..(MAX_SCHED - 1) : Cancelled(pre.list[k])

\* C10 as claimed: retry after cancel. Once another id of the full table has
\* been cancelled, sched_event of the new id succeeds.
C10_RetrySucceeds == RetryAfterCancel => fg.ret = 1

\* C10 amended: cancel makes no room. sched_cancel never lowers the slot
\* count, and on a full table sched_event of a new id fails again although
\* another id has been cancelled.
C10_CancelFreesNothing ==
    /\ (fg.pc = "ret" /\ fg.op = "sched_cancel") => sched_count >= pre.count
    /\ RetryAfterCancel => (fg.ret = 0 /\ sched_count = MAX_SCHED)

\* C10 witness: the retry returns 0.
C10_Witness == RetryAfterCancel /\ fg.ret = 0

\* the last counted slot that holds the id
SlotOf(list, count, ident) ==
    SetMax({k \in 0..(count - 1) : list[k].id = UChar(ident)})

\* C11: one-shot timer. sched_event(id, 0, p) with p > 0 on a manual-timer id
\* at time t sets the due time to t + p; sched_check(id) on the armed
\* one-shot slot returns true if and only if the time read is at or after
\* the due time, and a true result turns the slot off, so that every later
\* poll returns false until the id is armed again.
C11_OneShotTimer ==
    /\ (fg.pc = "ret" /\ fg.op = "sched_event" /\ ~IsPin(fg.ident)
        /\ fg.ret = 1) =>
           schedlist[fg.pos].schedtime = ULong(fg.timems + fg.ms)
    /\ (fg.pc = "ret" /\ fg.op = "sched_check" /\ ~IsPin(fg.ident)
        /\ InTable(pre.list, pre.count, fg.ident)) =>
           LET k == SlotOf(pre.list, pre.count, fg.ident)
               s == pre.list[k]
           IN  s.recurring = 0 =>
                   /\ fg.ret = (IF s.active # 0 /\ s.schedtime <= millis
                                THEN 1 ELSE 0)
                   /\ schedlist[k].active = (IF fg.ret = 1 THEN 0 ELSE s.active)

\* a poll of a recurring manual timer of period > 0 has just returned true
RecurringTrue ==
    /\ fg.pc = "ret" /\ fg.op = "sched_check" /\ IsTimer(fg.ident)
    /\ fg.ret = 1
    /\ pre.list[fg.pos].recurring # 0
    /\ pre.list[fg.pos].schedms > 0

\* C12 (as stated): recurring timer cadence. For a recurring manual timer of
\* period p > 0, two consecutive true results of the poll are at least p
\* ticks apart.
C12_TruesPeriodApart ==
    (RecurringTrue /\ hist.prev_true >= 0) =>
        hist.last_true - hist.prev_true >= pre.list[fg.pos].schedms

\* C12 (amended): recurring timer cadence. A poll of a recurring manual timer
\* of period p > 0 returns true only when the due time has been reached, and
\* a true result moves the due time forward by exactly p from the previous
\* due time (not from the time of the poll) and leaves the timer active; a
\* false result leaves the slot as it was.
C12_FixedCadence ==
    (fg.pc = "ret" /\ fg.op = "sched_check" /\ IsTimer(fg.ident)
     /\ fg.pos >= 0 /\ pre.list[fg.pos].recurring # 0
     /\ pre.list[fg.pos].schedms > 0) =>
        LET s == pre.list[fg.pos]
        IN  IF fg.ret = 1
            THEN /\ s.active # 0
                 /\ s.schedtime <= fg.timems
                 /\ schedlist[fg.pos] =
                        [s EXCEPT !.schedtime = ULong(s.schedtime + s.schedms)]
            ELSE schedlist[fg.pos] = s

\* two true results of a recurring timer less than a period apart
C12_Witness ==
    /\ RecurringTrue
    /\ hist.prev_true >= 0
    /\ hist.last_true - hist.prev_true < pre.list[fg.pos].schedms

\* an event loop that watches WatchPin with a period of 0 ms, arms the
\* manual timer TimerId with a period of 1 ms, starts over with
\* sched_list_init, and puts every query to ids it has not armed and to the
\* timer
NextUnknown ==
    \/ /\ calls < UnknownArms
       /\ sched_list_init_call
       /\ calls' = calls + 1
    \/ /\ calls < UnknownArms
       /\ \E id \in {WatchPin, TimerId} :
              sched_event_call(id, 1, IF id = WatchPin THEN 0 ELSE 1)
       /\ calls' = calls + 1
    \/ \E id \in QueryIds : sched_check_call(id) /\ UNCHANGED calls
    \/ \E id \in QueryIds : sched_pin_gohigh_call(id) /\ UNCHANGED calls
    \/ \E id \in QueryIds : sched_pin_golow_call(id) /\ UNCHANGED calls
    \/ \E id \in QueryIds, level \in {0, 1} :
           sched_pin_level_call(id, level) /\ UNCHANGED calls
    \/ \E id \in QueryIds, level \in {0, 1}, reset \in {0, 1} :
           sched_pin_event_count_call(id, level, reset) /\ UNCHANGED calls
    \/ sched_list_init_step /\ UNCHANGED calls
    \/ sched_event_step
    \/ sched_check_step
    \/ sched_pin_test0_step
    \/ sched_pin_event_count_step
    \/ Environment(UnknownMaxTime)

SpecUnknown == Init /\ [][NextUnknown]_vars

\* a query (not sched_event, sched_cancel or sched_list_init) has returned
QueryReturned ==
    /\ fg.pc = "ret"
    /\ fg.op \in {"sched_check", "sched_pin_gohigh", "sched_pin_golow",
                 "sched_pin_level", "sched_pin_event_count"}

\* C13: an unknown identifier is neutral. For every id that has not been
\* passed to sched_event since the last sched_list_init, sched_check,
\* sched_pin_gohigh, sched_pin_golow, sched_pin_level and
\* sched_pin_event_count (both directions, both reset values) return 0 and
\* leave the slot count and every slot as they were.
C13_UnknownIdNeutral ==
    (QueryReturned /\ fg.ident \notin hist.armed) =>
        /\ fg.ret = 0
        /\ sched_count = pre.count
        /\ schedlist = pre.list

\* a query of an unknown id has returned while the table holds a watched pin
\* that is HIGH, has a confirmed edge pending and a rising edge counted
C13_Witness ==
    /\ QueryReturned /\ fg.ident \notin hist.armed
    /\ sched_count > 0
    /\ schedlist[0].debounce_state = HIGH
    /\ schedlist[0].debounce_change # 0
    /\ schedlist[0].event_ct_up > 0

\* the scripted input: HIGH during ticks 1..RunLen, LOW before and after
ScriptLevel(t) == IF t >= 1 /\ t <= RunLen THEN HIGH ELSE LOW

\* the two edge queries the scripted event loop puts between two ticks
EdgeQueries == {"sched_pin_gohigh", "sched_pin_golow"}

\* the scripted event loop takes the result of an edge query
ScriptReturn ==
    ReturnWith(IF fg.op \in EdgeQueries
               THEN [hist EXCEPT
                        !.polled = @ \cup {fg.op},
                        !.rose = @ + (IF fg.op = "sched_pin_gohigh" THEN fg.ret
                                      ELSE 0),
                        !.fell = @ + (IF fg.op = "sched_pin_golow" THEN fg.ret
                                      ELSE 0)]
               ELSE hist)

\* an event loop that watches WatchPin with a 1 ms period from time 0 while
\* the input is LOW, asks for a rising and for a falling edge once between
\* two ticks, in either order, while the input is HIGH for RunLen ticks and
\* LOW for RunLen ticks, and then reads and resets the rising-edge counter
NextScript ==
    \/ /\ sched_initialized = 0
       /\ sched_list_init_call
       /\ UNCHANGED calls
    \/ /\ sched_count = 0
       /\ sched_event_call(WatchPin, 1, 1)
       /\ UNCHANGED calls
    \/ /\ sched_count > 0 /\ millis < 2 * RunLen
       /\ "sched_pin_gohigh" \notin hist.polled
       /\ sched_pin_gohigh_call(WatchPin)
       /\ UNCHANGED calls
    \/ /\ sched_count > 0 /\ millis < 2 * RunLen
       /\ "sched_pin_golow" \notin hist.polled
       /\ sched_pin_golow_call(WatchPin)
       /\ UNCHANGED calls
    \/ /\ millis = 2 * RunLen /\ calls = 0
       /\ sched_pin_event_count_call(WatchPin, 1, 1)
       /\ calls' = 1
    \/ sched_list_init_step /\ UNCHANGED calls
    \/ sched_event_step
    \/ sched_pin_test0_step
    \/ sched_pin_event_count_step
    \/ ScriptReturn /\ UNCHANGED calls
    \/ /\ sched_count > 0 /\ fg.pc = "idle"
       /\ hist.polled = EdgeQueries \/ millis = 0
       /\ pin[WatchPin] = ScriptLevel(millis + 1)
       /\ Tick(2 * RunLen)
    \/ /\ sched_count > 0 /\ fg.pc = "idle"
       /\ pin[WatchPin] # ScriptLevel(millis + 1)
       /\ PinChange

SpecScript == Init /\ [][NextScript]_vars

\* C14: debounce scenario. The pin is watched with a 1 ms period while its
\* input is LOW, the input is then HIGH for RunLen = 20 ticks and LOW for 20
\* ticks, and sched_pin_gohigh and sched_pin_golow are both called between
\* every two ticks: when sched_pin_event_count(6, rising, reset) is read at
\* the end it returns 1, sched_pin_gohigh has returned 1 exactly once and
\* sched_pin_golow has returned 1 exactly once.
C14_DebounceScenario ==
    (fg.pc = "ret" /\ fg.op = "sched_pin_event_count") =>
        /\ fg.ret = 1
        /\ hist.rose = 1
        /\ hist.fell = 1

\* an event loop that watches WatchPin with a period of 0 ms and asks for a
\* rising and for a falling edge once between two ticks, in either order,
\* while the input changes at any time
NextZero ==
    \/ /\ sched_initialized = 0
       /\ sched_list_init_call
       /\ UNCHANGED calls
    \/ /\ sched_count = 0
       /\ sched_event_call(WatchPin, 1, 0)
       /\ UNCHANGED calls
    \/ /\ sched_count > 0
       /\ "sched_pin_gohigh" \notin hist.polled
       /\ sched_pin_gohigh_call(WatchPin)
       /\ UNCHANGED calls
    \/ /\ sched_count > 0
       /\ "sched_pin_golow" \notin hist.polled
       /\ sched_pin_golow_call(WatchPin)
       /\ UNCHANGED calls
    \/ sched_list_init_step /\ UNCHANGED calls
    \/ sched_event_step
    \/ sched_pin_test0_step
    \/ ScriptReturn /\ UNCHANGED calls
    \/ /\ sched_count > 0 /\ fg.pc = "idle"
       /\ hist.polled = EdgeQueries \/ millis = 0
       /\ Tick(ZeroMaxTime)
    \/ /\ sched_initialized # 0
       /\ PinChange

SpecZero == Init /\ [][NextZero]_vars

\* the slot of WatchPin is armed recurring with a period of 0 ms
ZeroArmed ==
    /\ sched_count > 0
    /\ schedlist[0].id = WatchPin /\ schedlist[0].active # 0
    /\ schedlist[0].recurring # 0 /\ schedlist[0].schedms = 0

\* a tick leaves the confirmed level equal to the input it read, and moves
\* the "changed" flag and one edge counter by one exactly when the confirmed
\* level changed
ZeroTickTracks ==
    (ZeroArmed /\ fg.pc = "idle" /\ millis' # millis) =>
        LET s == schedlist[0]
            t == schedlist'[0]
        IN  /\ t.debounce_state = pin[WatchPin]
            /\ IF t.debounce_state # s.debounce_state
               THEN /\ t.debounce_change = UChar(s.debounce_change + 1)
                    /\ t.event_ct_up + t.event_ct_down =
                           s.event_ct_up + s.event_ct_down + 1
               ELSE /\ t.debounce_change = s.debounce_change
                    /\ t.event_ct_up = s.event_ct_up
                    /\ t.event_ct_down = s.event_ct_down

\* once both edge queries have been put after a tick, each has returned 1 as
\* many times as its edge was counted
ZeroFiresOnce ==
    (ZeroArmed /\ fg.pc = "idle" /\ hist.polled = EdgeQueries) =>
        /\ hist.rose = schedlist[0].event_ct_up
        /\ hist.fell = schedlist[0].event_ct_down

\* C15: zero-period recurring debounce. After sched_event(pin, 1, 0), at the
\* end of every tick the confirmed level of the slot equals the input read on
\* that tick, the "changed" flag and the edge counters advance exactly once
\* per change of the confirmed level, and sched_pin_gohigh / sched_pin_golow
\* return 1 once per transition.
C15_ZeroPeriod == [][ZeroTickTracks]_vars /\ []ZeroFiresOnce

\* an event loop that watches WatchPin, one-shot or recurring, with a period
\* of 0..MaxPeriod ms, and polls it or not
NextLive ==
    \/ /\ sched_initialized = 0
       /\ sched_list_init_call
       /\ UNCHANGED calls
    \/ /\ calls < LiveCalls
       /\ \E recur \in {0, 1}, ms \in 0..MaxPeriod :
              sched_event_call(WatchPin, recur, ms)
       /\ calls' = calls + 1
    \/ /\ calls < LiveCalls
       /\ sched_check_call(WatchPin)
       /\ calls' = calls + 1
    \/ sched_list_init_step /\ UNCHANGED calls
    \/ sched_event_step
    \/ sched_check_step
    \/ Environment(LiveMaxTime)

SpecLive == Init /\ [][NextLive]_vars

\* the counted slots that watch a pin and are active
ActivePinSlots ==
    {k \in 0..(sched_count - 1) :
        IsPin(schedlist[k].id) /\ schedlist[k].active # 0}

\* the filter does without smoothing for a recurring slot of period 0
Smoothing(s) == IF s.recurring # 0 /\ s.schedms = 0 THEN 0 ELSE 1

\* C16 (as stated): pin-watch slots are always live. On every tick after
\* sched_list_init, every active slot that watches a pin, whatever its
\* period, gets one debounce evaluation: the input is read into laststate
\* and the accumulator debounce_ct is updated once.
C16_EveryTickEvaluates ==
    [][(millis' # millis /\ sched_initialized # 0) =>
          \A k \in ActivePinSlots :
              LET s == schedlist[k]
                  e == DebounceEval(s, pin[s.id], Smoothing(s))
              IN  /\ schedlist'[k].laststate = pin[s.id]
                  /\ schedlist'[k].debounce_ct = e.debounce_ct]_vars

\* C16 (amended): on every tick after sched_list_init, every active slot
\* that watches a pin and whose due time has been reached gets exactly one
\* debounce evaluation, whether or not the foreground polls it, and the due
\* time of a recurring slot moves on by its period (by 1 for period 0); an
\* active slot whose due time lies ahead is left as it was.
C16_DueTickEvaluates ==
    [][(millis' # millis /\ sched_initialized # 0) =>
          \A k \in ActivePinSlots :
              LET s == schedlist[k]
                  e == DebounceEval(s, pin[s.id], Smoothing(s))
              IN  IF s.schedtime <= millis'
                  THEN schedlist'[k] =
                         IF s.recurring # 0
                         THEN [e EXCEPT !.schedtime =
                                  ULong(s.schedtime + (IF s.schedms = 0 THEN 1
                                                       ELSE s.schedms))]
                         ELSE [e EXCEPT !.active = 0]
                  ELSE schedlist'[k] = s]_vars

\* an active slot watching a pin whose input differs from the level read
\* last, with the due time more than one tick ahead: the next tick skips it
C16_Witness ==
    /\ sched_initialized # 0 /\ fg.pc = "idle" /\ millis < LiveMaxTime
    /\ \E k \in ActivePinSlots :
           /\ schedlist[k].schedtime > millis + 1
           /\ schedlist[k].laststate # pin[schedlist[k].id]

\* the event loop takes the result of sched_cancel and keeps track of it
CancelReturn ==
    ReturnWith(IF fg.op = "sched_cancel" /\ fg.ret = 1
               THEN [hist EXCEPT !.cancelled = @ \cup {fg.ident}]
               ELSE hist)

\* an event loop that watches WatchPin with a 1 ms period, cancels it and
\* arms it again while the input changes
NextCancel ==
    \/ /\ sched_initialized = 0
       /\ sched_list_init_call
       /\ UNCHANGED calls
    \/ /\ calls < CancelCalls
       /\ sched_event_call(WatchPin, 1, 1)
       /\ calls' = calls + 1
    \/ /\ calls < CancelCalls
       /\ sched_cancel_call(WatchPin)
       /\ calls' = calls + 1
    \/ sched_list_init_step /\ UNCHANGED calls
    \/ sched_event_step
    \/ CancelReturn /\ UNCHANGED calls
    \/ Tick(CancelMaxTime)
    \/ PinChange

SpecCancel == Init /\ [][NextCancel]_vars

\* the counted slots of pins whose sched_cancel has returned, with no
\* sched_event or sched_cancel of the pin since
CancelledPinSlots ==
    {k \in 0..(sched_count - 1) :
        /\ IsPin(schedlist[k].id)
        /\ \E id \in hist.cancelled : schedlist[k].id = UChar(id)}

ToggleLevel(t) == t % 2

\* an event loop that watches WatchPin with a period of 0 ms while the input
\* changes on every tick, and asks for a rising edge whenever it likes
NextFlag ==
    \/ /\ sched_initialized = 0
       /\ sched_list_init_call
       /\ UNCHANGED calls
    \/ /\ sched_count = 0
       /\ sched_event_call(WatchPin, 1, 0)
       /\ UNCHANGED calls
    \/ /\ sched_count > 0
       /\ sched_pin_gohigh_call(WatchPin)
       /\ UNCHANGED calls
    \/ sched_list_init_step /\ UNCHANGED calls
    \/ sched_event_step
    \/ sched_pin_test0_step
    \/ Return /\ UNCHANGED calls
    \/ /\ sched_count > 0 /\ fg.pc = "idle"
       /\ pin[WatchPin] = ToggleLevel(millis + 1)
       /\ Tick(FlagMaxTime)
    \/ /\ sched_count > 0 /\ fg.pc = "idle"
       /\ pin[WatchPin] # ToggleLevel(millis + 1)
       /\ PinChange

SpecFlag == Init /\ [][NextFlag]_vars

\* C18: the "changed" flag is cleared only by a foreground read. Once a
\* confirmed transition has set debounce_change of a slot, it stays nonzero
\* whatever ticks and confirmed transitions follow: the only step that takes
\* it from nonzero to zero is the read of sched_pin_gohigh or sched_pin_golow
\* (line 423) for that slot.
C18_FlagClearedByRead ==
    [][\A k \in 0..(sched_count - 1) :
          (schedlist[k].debounce_change # 0
           /\ schedlist'[k].debounce_change = 0) =>
              /\ fg.op \in EdgeQueries
              /\ fg.pc = "L423"
              /\ fg.pos = k]_vars

\* the scan counts sched_list_init is called with (above the buffer size
\* too) and the channels sched_analogread is called with
ScanCounts == 0..(MAX_ANALOG_PIN + 2)
AnalogArgs == ScanCounts \cup {UCHAR_MOD - 1}

\* an event loop that starts the scheduler with any scan count, starts it
\* over, and reads any channel at any time
NextScan ==
    \/ /\ calls < AnalogInits
       /\ \E n \in ScanCounts : sched_list_init_begin(n)
       /\ calls' = calls + 1
    \/ \E c \in AnalogArgs : sched_analogread_call(c) /\ UNCHANGED calls
    \/ sched_list_init_step /\ UNCHANGED calls
    \/ Return /\ UNCHANGED calls
    \/ Tick(AnalogMaxTime)

SpecAnalog == Init /\ [][NextScan]_vars

\* C19: out-of-range analog channel. For every scan count n in
\* 0..MAX_ANALOG_PIN+1 and every channel c >= n, sched_analogread(c) returns
\* 0 and leaves the table as it was.
C19_OutOfRangeChannel ==
    (fg.pc = "ret" /\ fg.op = "sched_analogread"
     /\ fg.ident >= sched_num_analogs) =>
        /\ fg.ret = 0
        /\ schedlist = pre.list
        /\ sched_count = pre.count

\* C20: analog staleness bound. With N >= 1 channels scanned, once N ticks
\* have run after sched_list_init, the buffer entry of every channel c < N
\* was written at most N - 1 ticks before the last tick (it is rewritten in
\* every window of N consecutive ticks), and sched_analogread(c) returns
\* that entry.
C20_AnalogStaleness ==
    /\ (sched_initialized # 0 /\ sched_num_analogs >= 1
        /\ hist.since_init >= sched_num_analogs) =>
           \A c \in 0..(sched_num_analogs - 1) :
               hist.age[c] <= sched_num_analogs - 1
    /\ (fg.pc = "ret" /\ fg.op = "sched_analogread"
        /\ fg.ident < sched_num_analogs) =>
           fg.ret = sched_analoglist[fg.ident]

\* all channels are scanned, the ring has gone round, and the entry read is
\* the oldest one: written MAX_ANALOG_PIN ticks before the last tick
C20_Witness ==
    /\ fg.pc = "ret" /\ fg.op = "sched_analogread"
    /\ sched_num_analogs = MAX_ANALOG_PIN + 1
    /\ hist.since_init > sched_num_analogs
    /\ fg.ident < sched_num_analogs
    /\ hist.age[fg.ident] = MAX_ANALOG_PIN
    /\ fg.ret = AnalogInput(fg.ident)

\* an event loop that starts the scheduler with or without analog scanning
\* (also with a scan count above the buffer size), watches WatchPin with a period of 0 ms and starts the scheduler over at
\* any time; ticks fall between the statements of sched_list_init
NextInit ==
    \/ /\ calls < InitCalls
       /\ \E n \in {0, ScanTwo, UCHAR_MOD - 1} : sched_list_init_begin(n)
       /\ calls' = calls + 1
    \/ /\ calls < InitCalls
       /\ sched_event_call(WatchPin, 1, 0)
       /\ calls' = calls + 1
    \/ sched_list_init_line /\ UNCHANGED calls
    \/ sched_event_step
    \/ Return /\ UNCHANGED calls
    \/ Tick(InitMaxTime)
    \/ PinChange

SpecInit == Init /\ [][NextInit]_vars

\* C21: the interrupt handler is a no-op until init completes. A tick that
\* fires while sched_initialized is 0 (before the first sched_list_init, or
\* between the first and the last statement of a sched_list_init, also in
\* mid-run) changes no slot, no slot count, no analog buffer entry, no ring
\* position and starts no conversion.
C21_HandlerOffDuringInit ==
    [][(millis' # millis
        /\ (sched_initialized = 0 \/ fg.op = "sched_list_init")) =>
          UNCHANGED <<schedlist, sched_count, analog_vars, client>>]_vars

\* a tick has fallen inside a sched_list_init in mid-run, after the slots
\* were cleared and before the slot count and the scan were reset: the table
\* it would have worked on still counts a slot and scans channels
C21_Witness ==
    /\ fg.op = "sched_list_init" /\ fg.pc \in {"L145", "L147", "L152", "L153"}
    /\ ticks_in_call = 1
    /\ sched_count > 0
    /\ sched_num_analogs # 0
    /\ pre.list[0].active # 0

\* C22: init fully resets state. When sched_list_init(n) returns, in
\* whatever state it was called, no id is registered (the slot count is 0,
\* so every lookup fails and MAX_SCHED ids can be allocated; slots
\* 0..MAX_SCHED-1 are inactive with zero counters, flag and level), every
\* entry of the analog buffer is 0, the ring position is 0 and the scan
\* count is min(n, MAX_ANALOG_PIN + 1).
C22_InitResets ==
    (fg.pc = "ret" /\ fg.op = "sched_list_init") =>
        /\ sched_initialized # 0
        /\ sched_count = 0
        /\ \A id \in QueryIds \cup {WatchPin} :
               FindPos(schedlist, sched_count, id) < 0
        /\ \A k \in 0..(MAX_SCHED - 1) :
               /\ schedlist[k].active = 0
               /\ schedlist[k].id = 0
               /\ schedlist[k].event_ct_up = 0
               /\ schedlist[k].event_ct_down = 0
               /\ schedlist[k].debounce_change = 0
               /\ schedlist[k].debounce_state = LOW
               /\ schedlist[k].schedtime = 0
               /\ schedlist[k].schedms = 0
               /\ schedlist[k].recurring = 0
        /\ \A c \in Channels :
               /\ sched_analoglist[c] = 0
               /\ AnalogReadValues(c) = {0}
        /\ sched_current_analog = 0
        /\ sched_num_analogs = (IF fg.num > MAX_ANALOG_PIN + 1
                                THEN MAX_ANALOG_PIN + 1 ELSE fg.num)

\* sched_list_init has returned in mid-run: it was called with a scan count
\* above the buffer size while a watched pin was active with edges counted
C22_Witness ==
    /\ fg.pc = "ret" /\ fg.op = "sched_list_init"
    /\ fg.num > MAX_ANALOG_PIN + 1
    /\ pre.count > 0
    /\ pre.list[0].active # 0
    /\ pre.list[0].event_ct_up + pre.list[0].event_ct_down > 0

\* an event loop that starts the scheduler with or without analog scanning
\* and watches WatchPin with a period of 0 ms, while the handler runs in its
\* two steps; the foreground stands still while the handler is running
NextOrder ==
    \/ /\ calls < OrderCalls /\ isr = "idle"
       /\ \E n \in {0, ScanTwo} : sched_list_init_begin(n)
       /\ calls' = calls + 1
    \/ /\ calls < OrderCalls /\ isr = "idle"
       /\ sched_event_call(WatchPin, 1, 0)
       /\ calls' = calls + 1
    \/ isr = "idle" /\ sched_list_init_step /\ UNCHANGED calls
    \/ isr = "idle" /\ sched_event_step
    \/ isr = "idle" /\ Return /\ UNCHANGED calls
    \/ TickHarvest(OrderMaxTime)
    \/ TickPins
    \/ PinChange

SpecOrder == Init /\ [][NextOrder]_vars

\* C23: ordering within a tick. In every tick processed after init, when the
\* handler reaches the pin loop the analog harvest and the advance of the
\* ring position for that tick are done (the finished conversion is stored,
\* the position has advanced, the next conversion is started) and no slot
\* has been evaluated yet; the pin loop touches nothing of the analog scan.
C23_HarvestBeforePins ==
    [][/\ (isr = "idle" /\ isr' = "L792") =>
             /\ schedlist' = schedlist
             /\ sched_num_analogs # 0 =>
                    /\ sched_analoglist'[sched_current_analog] = adc.val
                    /\ sched_current_analog' =
                           (IF sched_current_analog + 1 >= sched_num_analogs
                            THEN 0 ELSE sched_current_analog + 1)
                    /\ adc'.mux = sched_current_analog'
       /\ isr = "L792" =>
             /\ millis' = millis
             /\ UNCHANGED <<sched_num_analogs, sched_current_analog,
                            sched_analoglist, adc>>]_vars

\* the handler stands before the pin loop with the scan on, and the watched
\* pin is due with its input at the other level than it read last
C23_Witness ==
    /\ isr = "L792"
    /\ sched_num_analogs # 0
    /\ hist.since_init >= ScanTwo
    /\ \E k \in ActivePinSlots :
           /\ schedlist[k].schedtime <= millis
           /\ schedlist[k].laststate # pin[schedlist[k].id]

\* C24: analog pipeline correctness. Whenever a tick stores a value into the
\* analog buffer at index c, the converter was set to channel c and the value
\* is the result of the conversion of channel c; this holds for every tick
\* after sched_list_init, the first one included, and every scan count >= 1.
C24_PipelineCorrect ==
    [][(millis' # millis /\ sched_initialized # 0 /\ sched_num_analogs # 0) =>
          /\ adc.mux = sched_current_analog
          /\ sched_analoglist'[sched_current_analog] =
                 AnalogInput(sched_current_analog)]_vars

\* C25: accumulator saturation and hysteresis consistency. For every
\* registered slot that watches a pin, after every sched_event and after
\* every debounce evaluation, debounce_ct lies in
\* [DEBOUNCE_THRESH_BOTTOM, DEBOUNCE_THRESH_MAX] and agrees with the
\* confirmed level: HIGH implies debounce_ct >= DEBOUNCE_THRESH_DOWN, LOW
\* implies debounce_ct <= DEBOUNCE_THRESH_UP.
C25_AccumulatorConsistent ==
    (fg.pc \in {"idle", "ret"}) =>
        \A k \in 0..(sched_count - 1) :
            IsPin(schedlist[k].id) =>
                /\ schedlist[k].debounce_ct >= DEBOUNCE_THRESH_BOTTOM
                /\ schedlist[k].debounce_ct <= DEBOUNCE_THRESH_MAX
                /\ schedlist[k].debounce_state # LOW =>
                       schedlist[k].debounce_ct >= DEBOUNCE_THRESH_DOWN
                /\ schedlist[k].debounce_state = LOW =>
                       schedlist[k].debounce_ct <= DEBOUNCE_THRESH_UP

\* C26: the tick only mutates existing pin-watch state. No tick changes the
\* slot count or the id, period or recurring flag of any slot, and no tick
\* changes any field of a slot whose id is outside 0..MAX_DIGITAL_PIN: a
\* manual timer expires only in sched_check.
C26_TickFrame ==
    [][millis' # millis =>
          /\ sched_count' = sched_count
          /\ \A k \in Slots :
                 /\ schedlist'[k].id = schedlist[k].id
                 /\ schedlist'[k].schedms = schedlist[k].schedms
                 /\ schedlist'[k].recurring = schedlist[k].recurring
                 /\ schedlist[k].id > MAX_DIGITAL_PIN =>
                        schedlist'[k] = schedlist[k]]_vars

\* the manual timer is active and its due time has been reached by a tick,
\* while a watched pin is in the table as well
C26_Witness ==
    /\ millis > 0
    /\ \E k \in 0..(sched_count - 1) :
           /\ schedlist[k].id = TimerId
           /\ schedlist[k].active # 0
           /\ schedlist[k].schedtime <= millis
    /\ \E k \in 0..(sched_count - 1) :
           schedlist[k].id = WatchPin /\ schedlist[k].active # 0

\* C27: a counter reset touches only the requested direction. With no tick
\* interleaved, no statement of sched_pin_event_count(id, rising, reset)
\* changes event_ct_down of the slot, and no statement of
\* sched_pin_event_count(id, falling, reset) changes event_ct_up.
C27_ResetOneDirection ==
    [][(fg.op = "sched_pin_event_count" /\ fg.pos >= 0
        /\ ticks_in_call = 0 /\ millis' = millis) =>
          /\ fg.level # 0 =>
                 schedlist'[fg.pos].event_ct_down
                     = schedlist[fg.pos].event_ct_down
          /\ fg.level = 0 =>
                 schedlist'[fg.pos].event_ct_up
                     = schedlist[fg.pos].event_ct_up]_vars

\* C28: no confirmed edge is lost to the flag read-and-clear race. Once
\* sched_pin_test0 has read and cleared the "changed" flag (lines 422-423),
\* an edge that a tick confirmed after the read is still pending in the flag
\* for a later pin_rose or pin_fell, whatever the interleaving was.
C28_NoEdgeLostToRace ==
    (fg.op \in {"sched_pin_gohigh", "sched_pin_golow"} /\ fg.pos >= 0
     /\ fg.pc \in {"L425", "ret"} /\ fg.pos \in edge_since) =>
        schedlist[fg.pos].debounce_change # 0


\* an event loop that watches WatchPin with a period of 0 or 1 ms and polls
\* it with sched_check, whose statements the tick can interrupt; no counter
\* is reset but by sched_event
NextAltern ==
    \/ /\ sched_initialized = 0
       /\ sched_list_init_call
       /\ UNCHANGED calls
    \/ /\ calls < AlternCalls
       /\ \E ms \in {0, 1} : sched_event_call(WatchPin, 1, ms)
       /\ calls' = calls + 1
    \/ /\ calls < AlternCalls
       /\ sched_check_call(WatchPin)
       /\ calls' = calls + 1
    \/ sched_list_init_step /\ UNCHANGED calls
    \/ sched_event_step
    \/ sched_check0_line
    \/ Return /\ UNCHANGED calls
    \/ Tick(AlternMaxTime)
    \/ PinChange

SpecAltern == Init /\ [][NextAltern]_vars

\* C29: confirmed edges alternate. For every pin-watch slot, once sched_event
\* has armed it and until it is armed again (no counter reset in between),
\* event_ct_up and event_ct_down differ by at most 1; and a tick increments
\* event_ct_up exactly when it takes debounce_state from LOW to HIGH, and
\* event_ct_down exactly when it takes debounce_state from HIGH to LOW.
C29_EdgesAlternate ==
    /\ [](\A k \in Slots :
              (k < sched_count /\ IsPin(schedlist[k].id)
               /\ fg.op # "sched_event") =>
                  /\ schedlist[k].event_ct_up
                         <= schedlist[k].event_ct_down + 1
                  /\ schedlist[k].event_ct_down
                         <= schedlist[k].event_ct_up + 1)
    /\ [][millis' # millis =>
              \A k \in Slots :
                  (k < sched_count /\ IsPin(schedlist[k].id)) =>
                      /\ schedlist'[k].event_ct_up # schedlist[k].event_ct_up
                             <=> (schedlist[k].debounce_state = LOW
                                  /\ schedlist'[k].debounce_state = HIGH)
                      /\ schedlist'[k].event_ct_down
                                 # schedlist[k].event_ct_down
                             <=> (schedlist[k].debounce_state = HIGH
                                  /\ schedlist'[k].debounce_state = LOW)]_vars


\* C30: analog indices stay in bounds. The scan count is at most
\* MAX_ANALOG_PIN + 1; while the handler is enabled the ring position is 0
\* when no channel is scanned and below the scan count otherwise, so the
\* entry the tick writes lies in the buffer; and the entry sched_analogread(c)
\* reads, when it reads one, has an index in 0..MAX_ANALOG_PIN.
C30_AnalogInBounds ==
    /\ sched_num_analogs <= MAX_ANALOG_PIN + 1
    /\ sched_initialized # 0 =>
           /\ sched_num_analogs = 0 => sched_current_analog = 0
           /\ sched_num_analogs # 0 => sched_current_analog < sched_num_analogs
           /\ sched_current_analog \in Channels
    /\ (fg.pc = "ret" /\ fg.op = "sched_analogread"
        /\ ~(fg.ident > sched_num_analogs)) =>
           fg.ident \in Channels


\* the scheduler is started when millis() is WrapLead ticks short of the
\* largest unsigned long (the board has been up for that long)
InitWrap ==
    /\ schedlist = [k \in Slots |-> ZeroSlot]
    /\ sched_count = 0
    /\ sched_initialized = 0
    /\ millis = ULONG_MOD - WrapLead
    /\ pin = [p \in Pins |-> LOW]
    /\ fg = IdleFg
    /\ pre = NoPre
    /\ ticks_in_call = 0
    /\ edge_since = {}
    /\ calls = 0
    /\ sched_num_analogs = 0
    /\ sched_current_analog = 0
    /\ sched_analoglist = [c \in Channels |-> 0]
    /\ adc = AdcReset
    /\ isr = "idle"
    /\ hist = NoHist
    /\ client = ClientInit

\* ticks since InitWrap, millis() having wrapped or not
WrapElapsed == ULong(millis + WrapLead)

\* an event loop that arms the manual timer TimerId, one-shot or recurring,
\* shortly before millis() wraps, and polls it
NextWrap ==
    \/ /\ sched_initialized = 0
       /\ sched_list_init_call
       /\ UNCHANGED calls
    \/ /\ calls < WrapCalls
       /\ \E recur \in {0, 1}, ms \in 1..MaxPeriod :
              sched_event_call(TimerId, recur, ms)
       /\ calls' = calls + 1
    \/ /\ calls < WrapCalls
       /\ sched_check_call(TimerId)
       /\ calls' = calls + 1
    \/ sched_list_init_step /\ UNCHANGED calls
    \/ sched_event_step
    \/ sched_check_step
    \/ Return /\ UNCHANGED calls
    \/ WrapElapsed < WrapMaxTime /\ Tick(ULONG_MOD)

SpecWrap == InitWrap /\ [][NextWrap]_vars

\* C31: the due-time arithmetic survives the wrap of millis(). A one-shot
\* manual timer armed with period p at time t (its slot holds t + p and p)
\* is reported expired by sched_check exactly when the time the poll reads is
\* p or more ticks after t, the ticks counted modulo the width of unsigned
\* long: also when t + p has wrapped, and when millis() wraps while the timer
\* is pending.
C31_WrapSafeDue ==
    (fg.pc = "ret" /\ fg.op = "sched_check" /\ IsTimer(fg.ident)
     /\ fg.pos >= 0 /\ pre.list[fg.pos].recurring = 0
     /\ pre.list[fg.pos].active # 0) =>
        LET s == pre.list[fg.pos]
            t == ULong(s.schedtime - s.schedms + ULONG_MOD)
            elapsed == ULong(fg.timems - t + ULONG_MOD)
        IN  fg.ret = (IF elapsed >= s.schedms THEN 1 ELSE 0)


\* C32: cancel never consumes capacity. When sched_cancel(id) returns, for an
\* id in the table or not, the number of slots in use is what it was when
\* the call began; and the slot count is always within 0..MAX_SCHED.
C32_CancelKeepsCount ==
    /\ sched_count >= 0 /\ sched_count <= MAX_SCHED
    /\ (fg.pc = "ret" /\ fg.op = "sched_cancel") => sched_count = pre.count


\* ------------------------------------------------------------ pulsedial_key
\* now_dialing_in_pin of the Arduino build; dial_pulse_in_pin is WatchPin
DialPin == 7

\* what Serial.println() stands for in client.out: a line feed
Linefeed == 10

\* ticks of a steady level that take the filter from one end across the
\* other threshold
Settle == DEBOUNCE_THRESH_MAX - DEBOUNCE_THRESH_DOWN + 1

\* one dialing period with n pulses: the dialing switch closes, the pulse
\* switch opens n times for Settle ticks, Settle ticks apart, and the dialing
\* switch opens again; Settle more ticks pass before the next period
PeriodLen(n) == Settle + 2 * n * Settle + Settle

\* the period in which the dial is held past the timeout without a pulse,
\* and released for Settle ticks
HoldLen == DialTimeout + 3 * Settle

\* the dialing periods of the scripted input begin at these ticks: the dial
\* is held past the timeout, then DialMany pulses, then DialFew pulses, then
\* none; the input ends at DialEnd
Start1 == SetupDelay + Settle
Start2 == Start1 + HoldLen
Start3 == Start2 + PeriodLen(DialMany)
Start4 == Start3 + PeriodLen(DialFew)
DialEnd == Start4 + PeriodLen(0)

\* the dialing switch is closed (pin LOW) at tick t
DialClosed(t) ==
    \/ t >= Start1 /\ t < Start2 - Settle
    \/ t >= Start2 /\ t < Start3 - Settle
    \/ t >= Start3 /\ t < Start4 - Settle
    \/ t >= Start4 /\ t < DialEnd - Settle

\* the pulse switch is open (pin HIGH) at tick t, in a period that begins at
\* tick s and has n pulses
PulseOpen(t, s, n) ==
    \E i \in 0..(n - 1) :
        /\ t >= s + Settle + 2 * i * Settle
        /\ t < s + Settle + (2 * i + 1) * Settle

\* the levels of the pins at tick t (INPUT_PULLUP, lines 58-59: the dialing
\* pin is HIGH when off, the pulse pin LOW when on)
DialScript(t) ==
    [p \in Pins |->
        IF p = DialPin THEN (IF DialClosed(t) THEN LOW ELSE HIGH)
        ELSE IF p = WatchPin
        THEN (IF PulseOpen(t, Start2, DialMany) \/ PulseOpen(t, Start3, DialFew)
              THEN HIGH ELSE LOW)
        ELSE LOW]

\* a variant of lines 148-153 that prints the count as it is
DigitRaw(k) == k

\* lines 148-153: numdigit is numpulses, or 0 when numpulses is above 9
Digit(k) == IF k > 9 THEN 0 ELSE k

\* line 110: loop() starts over and switches on state
LoopTop(c) ==
    [c EXCEPT !.pc = IF c.state = 0 THEN "L115"
                     ELSE IF c.state = 1 THEN "L138"
                     ELSE "L200"]

\* setup() and loop(): the sketch after the library call it made at c.pc has
\* returned ret
ClientAfter(c, ret) ==
    CASE c.pc = "L61" -> [c EXCEPT !.pc = "L62"]
      [] c.pc = "L62" -> [c EXCEPT !.pc = "L63"]
      [] c.pc = "L63" -> [c EXCEPT !.pc = "L78"]
      [] c.pc = "L78" -> [c EXCEPT !.pc = "L84"]
      [] c.pc = "L84" -> IF ret # 0 THEN LoopTop(c) ELSE c
      [] c.pc = "L115" -> IF ret # 0 THEN [c EXCEPT !.pc = "L118"]
                          ELSE LoopTop(c)
      [] c.pc = "L118" -> [c EXCEPT !.pc = "L124"]
      [] c.pc = "L124" -> LoopTop([c EXCEPT !.numpulses = ret, !.state = 1])
      [] c.pc = "L138" -> IF ret # 0 THEN [c EXCEPT !.pc = "L144"]
                          ELSE [c EXCEPT !.pc = "L178"]
      [] c.pc = "L144" ->
             LoopTop([c EXCEPT !.numpulses = ret,
                               !.out = IF ret > 0 THEN Append(@, Digit(ret))
                                       ELSE @,
                               !.state = 0])
      [] c.pc = "L178" -> IF ret # 0 THEN [c EXCEPT !.pc = "L183"]
                          ELSE LoopTop(c)
      [] c.pc = "L183" ->
             LoopTop([c EXCEPT !.numpulses = ret, !.state = 0,
                               !.out = Append(@, Linefeed)])
      [] OTHER -> c

\* the sketch makes the library call of the line it is at
ClientCall ==
    /\ fg.pc = "idle"
    /\ CASE client.pc = "L61" -> sched_list_init_call
         [] client.pc = "L62" -> sched_event_call(WatchPin, 1, 1)
         [] client.pc = "L63" -> sched_event_call(DialPin, 1, 1)
         [] client.pc = "L78" -> sched_event_call(TimerId, 0, SetupDelay)
         [] client.pc \in {"L84", "L178"} -> sched_check_call(TimerId)
         [] client.pc = "L115" -> sched_pin_golow_call(DialPin)
         [] client.pc = "L118" -> sched_event_call(TimerId, 0, DialTimeout)
         [] client.pc \in {"L124", "L144", "L183"} ->
                sched_pin_event_count_call(WatchPin, 1, 1)
         [] client.pc = "L138" -> sched_pin_gohigh_call(DialPin)
         [] OTHER -> FALSE
    /\ UNCHANGED calls

\* the library call returns to the sketch, which goes on with its result
ClientReturn ==
    /\ fg.pc = "ret"
    /\ fg' = IdleFg
    /\ pre' = NoPre
    /\ ticks_in_call' = 0
    /\ hist' = [NoHist EXCEPT !.polled = {"loop"}]
    /\ client' = ClientAfter(client, fg.ret)
    /\ UNCHANGED <<schedlist, sched_count, sched_initialized, millis, pin,
                   edge_since, calls, analog_vars>>

\* the switches move: the pins take the levels the next tick will find
DialInput ==
    /\ pin # DialScript(millis + 1)
    /\ pin' = DialScript(millis + 1)
    /\ UNCHANGED <<schedlist, sched_count, sched_initialized, millis, fg, pre,
                   ticks_in_call, edge_since, calls, analog_vars, hist,
                   client>>

InitDial ==
    /\ schedlist = [k \in Slots |-> ZeroSlot]
    /\ sched_count = 0
    /\ sched_initialized = 0
    /\ millis = 0
    /\ pin = DialScript(0)
    /\ fg = IdleFg
    /\ pre = NoPre
    /\ ticks_in_call = 0
    /\ edge_since = {}
    /\ calls = 0
    /\ sched_num_analogs = 0
    /\ sched_current_analog = 0
    /\ sched_analoglist = [c \in Channels |-> 0]
    /\ adc = AdcReset
    /\ isr = "idle"
    /\ hist = NoHist
    /\ client = ClientInit

\* lines 61-78: setup() starts the scheduler and arms its three slots well
\* within the first millisecond
SetupArms == {"L61", "L62", "L63", "L78"}

\* the sketch runs setup() and loop() on the scripted input, which moves
\* right after a tick; loop() is fast: it completes a library call or more
\* between two ticks
NextDial ==
    \/ DialInput
    \/ /\ pin = DialScript(millis + 1)
       /\ \/ ClientCall
          \/ ClientReturn
          \/ sched_list_init_step /\ UNCHANGED calls
          \/ sched_event_step
          \/ sched_check_step
          \/ sched_pin_test0_step
          \/ sched_pin_event_count_step
          \/ /\ client.pc \notin SetupArms
             /\ hist.polled # {}
             /\ Tick(DialEnd)

SpecDial == InitDial /\ [][NextDial]_vars

\* C33: the pulse-dial decoder. state stays in {0, 1}. The sketch leaves
\* state 1 for a digit only after sched_pin_gohigh of the dialing pin has
\* returned true for a confirmed rising edge; it then reads the rising count
\* k of the pulse pin with reset, goes to state 0, and prints k when
\* 1 <= k <= 9, 0 when k > 9 and nothing when k = 0. When sched_check(20)
\* returns true in state 1 instead, it reads the count with reset, goes to
\* state 0 and prints a line feed and no digit. Nothing else is printed.
C33_DialDecoder ==
    /\ [](client.state \in {0, 1})
    /\ [][/\ (client.pc = "L138" /\ client'.pc = "L144") =>
                /\ fg.op = "sched_pin_gohigh" /\ fg.ident = DialPin
                /\ fg.ret = 1 /\ fg.got_edge
                /\ schedlist[fg.pos].debounce_state = HIGH
          /\ (client.pc = "L144" /\ client'.pc # "L144") =>
                /\ client.state = 1 /\ client'.state = 0
                /\ fg.op = "sched_pin_event_count" /\ fg.ident = WatchPin
                /\ fg.level = 1 /\ fg.reset = 1
                /\ client'.out =
                       (IF fg.ret = 0 THEN client.out
                        ELSE IF fg.ret <= 9 THEN Append(client.out, fg.ret)
                        ELSE Append(client.out, 0))
          /\ (client.pc = "L178" /\ client'.pc # "L178" /\ fg.ret # 0) =>
                client'.pc = "L183" /\ client.state = 1
          /\ (client.pc = "L183" /\ client'.pc # "L183") =>
                /\ client'.state = 0
                /\ fg.op = "sched_pin_event_count" /\ fg.ident = WatchPin
                /\ fg.level = 1 /\ fg.reset = 1
                /\ client'.out = Append(client.out, Linefeed)
          /\ client'.out # client.out => client.pc \in {"L144", "L183"}]_vars

\* at the end of the input the sketch has printed a line feed for the dial
\* held past the timeout, 0 for the period of more than 9 pulses, the digit
\* of the short period, and nothing for the period without a pulse
C33_Witness ==
    /\ client.out = <<Linefeed, 0, DialFew>>
    /\ client.state = 0
    /\ millis = DialEnd

====
